---- MODULE Spec2Model ----
(***************************************************************************)
(* Model of the synchronous/asynchronous call bridge of mcp_bridge.py      *)
(* (class MCPBridge, get_bridge, cleanup_bridge) together with the part of *)
(* mcp_client.py the bridge drives (connect / disconnect).                 *)
(*                                                                         *)
(* Caller threads execute the Python statements of start(), stop(),        *)
(* call_async(), get_bridge() and cleanup_bridge() one shared-memory       *)
(* access at a time.  Every event loop created by start() is served by a   *)
(* background thread that completes submitted coroutines in any order, or  *)
(* never.  Time advances in steps of Quantum; a blocked future.result()    *)
(* gives up when its ceiling has elapsed.                                  *)
(*                                                                         *)
(* The module also models the two step logs: SequentialThinkingProcess of  *)
(* sequential_thinking.py with the functions working on its shared         *)
(* instance, and ThinkingProcess of mcp_thinking_tool.py.                  *)
(***************************************************************************)
EXTENDS Integers, Sequences, FiniteSets, TLC

\* ------------------------------------------------------------------ bounds
NThreads == 2
MaxBridges == 1
MaxLoops == 2
MaxFutures == 3
Quantum == 10
MaxLogOps == 3
MaxNumber == 3
MaxClients == 2

\* ------------------------------------------------------- program constants
\* the timeout= arguments of the three future.result() calls
StartCeiling == 30
\* call_async() waiting no longer than start() does
CallCeilingAsStart == StartCeiling
CallCeiling == 60
\* stop() waiting as long as call_async() does
StopCeilingAsCall == CallCeiling
StopCeiling == 10

None == 0
Callers == 1..NThreads
\* the coroutine object caller t builds for a call: one operation per caller
CoroOf(t) == t

VARIABLES
    _bridge,    \* the module-level global: None or a bridge instance
    bridges,    \* the MCPBridge instances constructed so far
    loops,      \* the asyncio event loops created so far
    bgThreads,  \* the threading.Thread objects started so far
    clients,    \* the MCPSequentialThinkingClient instances created so far
    futs,       \* the futures returned by run_coroutine_threadsafe
    pc,         \* per caller: the statement it is about to execute
    self,       \* per caller: the bridge instance its method runs on
    outer,      \* per caller: the module function that called the method
    coro,       \* per caller: the coroutine passed to call_async
    fut,        \* per caller: its local variable `future`
    waited,     \* per caller: time spent in its current/last future.result()
    outcome,    \* per caller: how its last invocation ended
    made,       \* per caller: loops created / coroutines submitted by its
                \* current (or last) invocation
    steps,            \* sequential_thinking._thinking_process.steps
    current_step,     \* sequential_thinking._thinking_process.current_step
    thoughts,         \* mcp_thinking_tool._thinking_process.thoughts
    current_thought,  \* mcp_thinking_tool._thinking_process.current_thought
    ret,              \* what the last operation on a step log returned
    hist,             \* every add_step and reset of the step log, in order
    thist,            \* every add_thought and reset of the thought log, in order
    crew,             \* the Crew a pipeline has assembled (its agents and tasks)
    outputs           \* the tasks the crew has executed, in order, with results

shared == <<_bridge, bridges, loops, bgThreads, clients, futs>>
locals == <<pc, self, outer, coro, fut, waited, outcome, made>>
bridgeVars == <<_bridge, bridges, loops, bgThreads, clients, futs,
                pc, self, outer, coro, fut, waited, outcome, made>>
logVars == <<steps, current_step, thoughts, current_thought, ret, hist, thist>>
crewVars == <<crew, outputs>>
vars == <<_bridge, bridges, loops, bgThreads, clients, futs,
          pc, self, outer, coro, fut, waited, outcome, made,
          steps, current_step, thoughts, current_thought, ret, hist, thist,
          crew, outputs>>

Min(a, b) == IF a < b THEN a ELSE b

\* MCPBridge.__init__
MCPBridge == [client |-> None, loop |-> None, _thread |-> None, _connected |-> FALSE]

\* MCPSequentialThinkingClient.__init__ (mcp_client.py lines 25-28): the
\* session field (None or a ClientSession) and the transport.  `up` is not a
\* field of the class: it records that a connect() of this client has
\* returned and no disconnect() has run on its session since.
MCPSequentialThinkingClient == [session |-> FALSE, _transport |-> "none", up |-> FALSE]

\* how a connect() can end: it returns; stdio_client raises (line 48); or
\* initialize() raises (line 52) with transport and session assigned
ConnectRuns == {"ok", "early", "late"}

\* mcp_client.py lines 30-54: the client after connect() ended as r
connect(c, r) ==
    IF r = "early" THEN c
    ELSE [session |-> TRUE, _transport |-> "open", up |-> (r = "ok")]

\* how a disconnect() can end: it returns, or a close() raises (lines 60-63)
DisconnectRuns == {"ok", "err"}

\* mcp_client.py lines 56-64: the client after disconnect() ended as r; the
\* streams are closed only if there is a session, and self.session is not
\* assigned
disconnect(c, r) ==
    IF ~c.session THEN c
    ELSE [c EXCEPT !._transport = IF r = "ok" THEN "closed" ELSE @, !.up = FALSE]

\* mcp_client.py lines 68-69 and 85-86: if not self.session
NoSession(c) == ~c.session

\* how a request made through the session can end
SessionRuns == {"result", "error"}

\* mcp_client.py lines 66-72 and 74-89: list_tools() and call_tool() raise
\* the not-connected error, or await the request on the session and return
\* its result (an error of the session propagates)
call_tool(c, r) ==
    IF NoSession(c) THEN [kind |-> "raise", tag |-> "NotConnected"]
    ELSE IF r = "result" THEN [kind |-> "return", tag |-> "session_result"]
    ELSE [kind |-> "raise", tag |-> "session_error"]

\* asyncio.new_event_loop(); `ready` records that a connect() submitted to the
\* loop has returned normally (the handshake on this loop is complete)
NewEventLoop == [state |-> "new", stopReq |-> FALSE, ready |-> FALSE]

NoOutcome == [op |-> "none", kind |-> "none", tag |-> "none", id |-> 0, arg |-> 0, at |-> 0]
NoneMade == [loops |-> 0, subs |-> 0]

\* ---------------------------------------------------------- the step logs
\* None where a ThinkingStep is expected (the result of a failed get_step)
NoStep == [thought |-> 0, step_number |-> 0, total_steps |-> 0, metadata |-> <<>>]

\* the metadata argument: None (the default), or a dict given as the
\* sequence of its items
NoMetadata == [none |-> TRUE, items |-> <<>>]
MetadataArgs ==
    {NoMetadata,
     [none |-> FALSE, items |-> <<>>],
     [none |-> FALSE, items |-> <<[key |-> 1, value |-> 1]>>]}

\* the total_steps arguments tried
Totals == {2}

\* ThinkingStep.__init__ (sequential_thinking.py lines 15-27) without the
\* timestamp; line 27: self.metadata = metadata or {}
ThinkingStep(thought, step_number, total_steps, metadata) ==
    [thought |-> thought, step_number |-> step_number, total_steps |-> total_steps,
     metadata |-> IF metadata.none \/ metadata.items = <<>> THEN <<>> ELSE metadata.items]

\* a log that refuses a step whose number it already holds
AppendUnlessDuplicate(s, st) ==
    IF \E i \in 1..Len(s) : s[i].step_number = st.step_number THEN s ELSE Append(s, st)

\* a log that puts the newest step first
PrependStep(s, st) == <<st>> \o s

\* line 60: self.steps.append(step)
steps_append(s, st) == Append(s, st)

\* a reset that keeps the first step
ResetKeepsFirst(s) == IF s = <<>> THEN <<>> ELSE <<Head(s)>>

\* line 97: self.steps = []
reset(s) == <<>>

\* a lookup that returns the step added last under the number
RECURSIVE get_step_latest(_, _)
get_step_latest(s, n) ==
    IF s = <<>> THEN NoStep
    ELSE IF s[Len(s)].step_number = n THEN s[Len(s)]
    ELSE get_step_latest(SubSeq(s, 1, Len(s) - 1), n)

\* lines 64-69: the first step carrying the number, or None
RECURSIVE get_step(_, _)
get_step(s, n) ==
    IF s = <<>> THEN NoStep
    ELSE IF Head(s).step_number = n THEN Head(s)
    ELSE get_step(Tail(s), n)

\* one line of a summary: its kind and the values formatted into it
Line(kind, a, b) == [line |-> kind, a |-> a, b |-> b]

\* line 74: the fixed text returned for a log without steps
EmptyProcessMessage == <<Line("empty_process", 0, 0)>>

\* the steps of a log ordered by step number (stable)
RECURSIVE SortedByNumber(_)
SortedByNumber(s) ==
    IF s = <<>> THEN <<>>
    ELSE LET m == CHOOSE i \in 1..Len(s) :
                    /\ \A j \in 1..Len(s) : s[i].step_number <= s[j].step_number
                    /\ \A j \in 1..(i - 1) : s[j].step_number > s[i].step_number
         IN <<s[m]>> \o SortedByNumber(SubSeq(s, 1, m - 1) \o SubSeq(s, m + 1, Len(s)))

\* line 82: for step in self.steps
InLogOrder(s) == s

\* lines 83-90: the lines rendered for one step
StepEntry(st) ==
    <<Line("step", st.step_number, st.total_steps), Line("thought", st.thought, 0)>>
    \o [i \in 1..Len(st.metadata) |-> Line("meta", st.metadata[i].key, st.metadata[i].value)]
    \o <<Line("blank", 0, 0)>>

RECURSIVE Entries(_)
Entries(s) == IF s = <<>> THEN <<>> ELSE StepEntry(Head(s)) \o Entries(Tail(s))

\* lines 71-93: SequentialThinkingProcess.get_summary, as the lines joined
get_summary(s) ==
    IF s = <<>> THEN EmptyProcessMessage
    ELSE <<Line("rule", 0, 0), Line("title", Len(s), 0), Line("rule", 0, 0)>>
         \o Entries(InLogOrder(s))
         \o <<Line("rule", 0, 0)>>

\* a summary that empties the log it has rendered
ConsumedByReading(s) == <<>>

\* the steps after get_summary() or get_step(): neither assigns anything
AfterReading(s) == s

\* mcp_thinking_tool.py: None where a thought_data dict is expected
NoThought == [thought |-> 0, thoughtNumber |-> 0, totalThoughts |-> 0]

\* mcp_thinking_tool.py line 28: the fixed text for a log without thoughts
NotBegunMessage == <<Line("not_begun", 0, 0)>>

\* mcp_thinking_tool.py lines 32-42: the entries, numbered by position
RECURSIVE ThoughtEntries(_, _, _)
ThoughtEntries(th, i, n) ==
    IF i > n THEN <<>>
    ELSE <<Line("step", i, n), Line("thought", th[i].thought, 0), Line("blank", 0, 0)>>
         \o ThoughtEntries(th, i + 1, n)

\* mcp_thinking_tool.py lines 25-44: ThinkingProcess.get_summary
ThinkingProcess_get_summary(th) ==
    IF th = <<>> THEN NotBegunMessage
    ELSE <<Line("title", Len(th), 0), Line("blank", 0, 0)>> \o ThoughtEntries(th, 1, Len(th))

\* what an operation on a log returned: a step, a text, a count, or None
Ret(op, step, text, n) ==
    [op |-> op, step |-> step, text |-> text, n |-> n, err |-> "none"]

\* an operation on a log that ended by raising err
Raises(op, err) ==
    [op |-> op, step |-> NoStep, text |-> <<>>, n |-> 0, err |-> err]

\* the total_steps arguments think_step is tried with
ThinkTotals == {0, 2}

\* the context arguments think_step is tried with: None (the default), or a
\* text
Contexts == {None, 1}

\* sequential_thinking.py lines 143-145: metadata = {}; if context:
\* metadata["context"] = context
think_step_metadata(context) ==
    [none |-> FALSE,
     items |-> IF context = None THEN <<>> ELSE <<[key |-> 1, value |-> context]>>]

\* sequential_thinking.py lines 155-176, run after the step was added and
\* with n_steps steps in the log: the response lines, or the
\* ZeroDivisionError of step_number/total_steps in line 159 (the quotient
\* is exact for the totals tried)
think_step_response(thought, step_number, total_steps, context, n_steps) ==
    IF total_steps = 0 THEN Raises("think_step", "ZeroDivisionError")
    ELSE Ret("think_step", NoStep,
             <<Line("recorded", step_number, total_steps),
               Line("progress", (step_number * 100) \div total_steps, 0),
               Line("thought", thought, 0)>>
             \o (IF context = None THEN <<>> ELSE <<Line("context", context, 0)>>)
             \o (IF step_number = total_steps
                 THEN <<Line("completed", n_steps, 0)>>
                 ELSE <<Line("next", step_number + 1, 0)>>),
             0)

\* both logs as constructed at import (sequential_thinking.py line 102,
\* mcp_thinking_tool.py line 48)
LogInit ==
    /\ steps = <<>>
    /\ current_step = 0
    /\ thoughts = <<>>
    /\ current_thought = 0
    /\ ret = Ret("none", NoStep, <<>>, 0)
    /\ hist = <<>>
    /\ thist = <<>>

\* ------------------------------------------------------ the news pipelines
\* the two scripts that assemble a crew
Pipelines == {"parallel_agent_with_mcp", "parallel_agent_with_mcp_memory"}

\* Task(description, agent, expected_output, context): the task under the
\* name of the variable it is bound to, its agent, and the tasks in context
Task(name, agent, context) == [name |-> name, agent |-> agent, context |-> context]

\* parallel_agent_with_mcp.py lines 182-205, parallel_agent_with_mcp_memory.py
\* lines 198-229
bbc_task == Task("bbc_task", "bbc_agent", <<>>)
cnn_task == Task("cnn_task", "cnn_agent", <<>>)
reuters_task == Task("reuters_task", "reuters_agent", <<>>)

\* parallel_agent_with_mcp.py lines 231-236, parallel_agent_with_mcp_memory.py
\* lines 256-261
analysis_task ==
    Task("analysis_task", "analyst_agent", <<"bbc_task", "cnn_task", "reuters_task">>)

\* memory_agent.py lines 206-211 (get_analysis_history)
history_task == Task("history_task", "knowledge_agent", <<>>)

\* memory_agent.py lines 128-133 (create_knowledge_task), called with
\* search_tasks=[bbc_task, cnn_task, reuters_task] and the analysis task
knowledge_task ==
    Task("knowledge_task", "knowledge_agent",
         <<"bbc_task", "cnn_task", "reuters_task", "analysis_task">>)

\* parallel_agent_with_mcp.py lines 239-249, parallel_agent_with_mcp_memory.py
\* lines 278-292
synthesis_task(p) ==
    Task("synthesis_task", "synthesis_agent",
         IF p = "parallel_agent_with_mcp_memory"
         THEN <<"analysis_task", "knowledge_task", "history_task">>
         ELSE <<"analysis_task">>)

\* a memory pipeline that lists the knowledge task ahead of the analysis
crew_tasks_knowledge_first(p) ==
    IF p = "parallel_agent_with_mcp_memory"
    THEN <<bbc_task, cnn_task, reuters_task, knowledge_task, analysis_task,
           history_task, synthesis_task(p)>>
    ELSE <<bbc_task, cnn_task, reuters_task, analysis_task, synthesis_task(p)>>

\* Crew(tasks=[...]): parallel_agent_with_mcp.py line 254,
\* parallel_agent_with_mcp_memory.py line 296
crew_tasks(p) ==
    IF p = "parallel_agent_with_mcp_memory"
    THEN <<bbc_task, cnn_task, reuters_task, analysis_task, history_task,
           knowledge_task, synthesis_task(p)>>
    ELSE <<bbc_task, cnn_task, reuters_task, analysis_task, synthesis_task(p)>>

\* Crew(agents=[...]): parallel_agent_with_mcp.py line 253,
\* parallel_agent_with_mcp_memory.py line 295
crew_agents(p) ==
    IF p = "parallel_agent_with_mcp_memory"
    THEN <<"bbc_agent", "cnn_agent", "reuters_agent", "analyst_agent",
           "knowledge_agent", "synthesis_agent">>
    ELSE <<"bbc_agent", "cnn_agent", "reuters_agent", "analyst_agent", "synthesis_agent">>

\* Crew(agents, tasks, process=Process.sequential)
Crew(p) == [pipeline |-> p, agents |-> crew_agents(p), tasks |-> crew_tasks(p)]

\* no crew has been assembled
NoCrew == [pipeline |-> "none", agents |-> <<>>, tasks |-> <<>>]

CrewInit ==
    /\ crew = NoCrew
    /\ outputs = <<>>

Init ==
    /\ _bridge = None
    /\ bridges = <<>>
    /\ loops = <<>>
    /\ bgThreads = <<>>
    /\ clients = <<>>
    /\ futs = <<>>
    /\ pc = [t \in Callers |-> "idle"]
    /\ self = [t \in Callers |-> None]
    /\ outer = [t \in Callers |-> "none"]
    /\ coro = [t \in Callers |-> None]
    /\ fut = [t \in Callers |-> None]
    /\ waited = [t \in Callers |-> 0]
    /\ outcome = [t \in Callers |-> NoOutcome]
    /\ made = [t \in Callers |-> NoneMade]
    /\ LogInit
    /\ CrewInit


\* ------------------------------------------------------------ bookkeeping
\* the frames of sequential_thinking_mcp: its own body, and get_bridge()
\* called from it
ToolFrames == {"sequential_thinking_mcp", "sequential_thinking_mcp.get_bridge"}

\* the frames of get_bridge()
GetFrames == {"get_bridge", "sequential_thinking_mcp.get_bridge"}

\* the function whose frame is the outermost one of caller t
Outermost(t) ==
    IF outer[t] \in ToolFrames THEN "sequential_thinking_mcp" ELSE outer[t]

\* sequential_thinking_mcp without its handler
CaughtNever(t, kind) == FALSE

\* mcp_bridge.py line 137: except Exception, around the whole tool body
Caught(t, kind) == kind = "raise" /\ outer[t] \in ToolFrames

\* The innermost call of caller t ends.  A method called from get_bridge or
\* cleanup_bridge returns into that function; call_async called from
\* sequential_thinking_mcp returns its result through the tool (line 135).
\* An exception propagates out of get_bridge and cleanup_bridge (neither has
\* a handler) and is turned into the returned diagnostic string by the tool
\* (line 138): outcome kind "diagnostic", tagged with the error caught.
Done(t, op, kind, tag, id) ==
    LET back == kind = "return" /\ outer[t] \in GetFrames \cup {"cleanup_bridge"}
    IN /\ pc' = [pc EXCEPT ![t] =
                   IF back /\ outer[t] \in GetFrames THEN "g_ret"
                   ELSE IF back /\ outer[t] = "cleanup_bridge" THEN "k_clear"
                   ELSE "idle"]
       /\ outcome' = [outcome EXCEPT ![t] =
                   IF back THEN @
                   ELSE [op |-> IF outer[t] = "none" THEN op ELSE Outermost(t),
                         kind |-> IF Caught(t, kind) THEN "diagnostic" ELSE kind,
                         tag |-> tag, id |-> id, arg |-> coro[t],
                         at |-> IF tag = "Timeout" THEN waited[t] ELSE 0]]
       /\ outer' = [outer EXCEPT ![t] = IF back THEN @ ELSE "none"]
       /\ self' = [self EXCEPT ![t] = IF back THEN @ ELSE None]
       /\ coro' = [coro EXCEPT ![t] = None]
       /\ fut' = [fut EXCEPT ![t] = None]
       /\ waited' = [waited EXCEPT ![t] = 0]

\* The outermost function of caller t returns: its frame is gone.
Returned(t, op, tag, id) ==
    /\ pc' = [pc EXCEPT ![t] = "idle"]
    /\ outcome' = [outcome EXCEPT ![t] =
                     [op |-> op, kind |-> "return", tag |-> tag, id |-> id, arg |-> 0, at |-> 0]]
    /\ outer' = [outer EXCEPT ![t] = "none"]
    /\ self' = [self EXCEPT ![t] = None]
    /\ coro' = [coro EXCEPT ![t] = None]
    /\ fut' = [fut EXCEPT ![t] = None]
    /\ waited' = [waited EXCEPT ![t] = 0]

\* A caller enters one of the public entry points.
Enter(t) ==
    /\ pc[t] = "idle"
    /\ made' = [made EXCEPT ![t] = NoneMade]

\* asyncio.run_coroutine_threadsafe(c, loop): a new pending future.  The
\* callback that creates the task is queued on the loop behind everything
\* queued before it: `late` records that loop.stop was queued (or had run)
\* first, so run_forever returns before the task takes its first step.
Submitted(kind, l, cl, c) ==
    [kind |-> kind, loop |-> l, client |-> cl, coro |-> c, state |-> "pending",
     late |-> loops[l].stopReq \/ loops[l].state = "stopped"]

\* the ceiling of the future.result(timeout=...) a caller is blocked in
Ceiling(t) ==
    CASE pc[t] = "s_wait" -> StartCeiling
      [] pc[t] = "p_wait" -> StopCeiling
      [] pc[t] = "c_wait" -> CallCeiling
      [] OTHER -> 0

Waiting(t) == pc[t] \in {"s_wait", "p_wait", "c_wait"}

\* future.result() has handed over the outcome of future f and the caller's
\* frame drops its only reference to it
Taken(f) ==
    [futs EXCEPT ![f] = [kind |-> "none", loop |-> None, client |-> None,
                         coro |-> None, state |-> "taken", late |-> FALSE]]

\* ------------------------------------------------------- MCPBridge.start
\* start() without its guard: every call starts the bridge again
AlreadyConnectedNever(b) == FALSE

\* start() guarding on the loop it created instead of on the connected flag
AlreadyHasLoop(b) == bridges[b].loop # None

\* line 27: if self._connected
AlreadyConnected(b) == bridges[b]._connected

\* lines 27-28
start_check(t, b) ==
    IF AlreadyConnected(b)
    THEN /\ Done(t, "start", "return", "noop", b)
         /\ UNCHANGED shared
    ELSE /\ pc' = [pc EXCEPT ![t] = "s_loop"]
         /\ self' = [self EXCEPT ![t] = b]
         /\ outcome' = [outcome EXCEPT ![t] = NoOutcome]
         /\ UNCHANGED <<shared, outer, coro, fut, waited>>

\* a caller invokes bridge.start() on an instance it holds
StartInvoke(t) ==
    /\ Enter(t)
    /\ \E b \in 1..Len(bridges) : start_check(t, b)
    /\ UNCHANGED <<logVars, crewVars>>

\* start() entered from get_bridge
StartCheck(t) ==
    /\ pc[t] = "s_check"
    /\ start_check(t, self[t])
    /\ UNCHANGED made
    /\ UNCHANGED <<logVars, crewVars>>

\* line 34: self.loop = asyncio.new_event_loop()
StartNewLoop(t) ==
    /\ pc[t] = "s_loop"
    /\ Len(loops) < MaxLoops
    /\ loops' = Append(loops, NewEventLoop)
    /\ bridges' = [bridges EXCEPT ![self[t]].loop = Len(loops) + 1]
    /\ made' = [made EXCEPT ![t].loops = @ + 1]
    /\ pc' = [pc EXCEPT ![t] = "s_thread"]
    /\ UNCHANGED <<_bridge, bgThreads, clients, futs, self, outer, coro, fut, waited, outcome>>
    /\ UNCHANGED <<logVars, crewVars>>

\* lines 30-32, 35-36: the thread runs run_forever on the loop read from
\* self.loop; run_forever on a loop that is already running raises in the
\* new thread, which then ends.
StartThread(t) ==
    /\ pc[t] = "s_thread"
    /\ LET l == bridges[self[t]].loop
           runs == loops[l].state # "running"
       IN /\ bgThreads' = Append(bgThreads, [target |-> l, alive |-> runs])
          /\ loops' = IF runs THEN [loops EXCEPT ![l].state = "running"] ELSE loops
          /\ bridges' = [bridges EXCEPT ![self[t]]._thread = Len(bgThreads) + 1]
    /\ pc' = [pc EXCEPT ![t] = "s_client"]
    /\ UNCHANGED <<_bridge, clients, futs, self, outer, coro, fut, waited, outcome, made>>
    /\ UNCHANGED <<logVars, crewVars>>

\* line 39: self.client = MCPSequentialThinkingClient()
StartClient(t) ==
    /\ pc[t] = "s_client"
    /\ clients' = Append(clients, MCPSequentialThinkingClient)
    /\ bridges' = [bridges EXCEPT ![self[t]].client = Len(clients) + 1]
    /\ pc' = [pc EXCEPT ![t] = "s_submit"]
    /\ UNCHANGED <<_bridge, loops, bgThreads, futs, self, outer, coro, fut, waited, outcome, made>>
    /\ UNCHANGED <<logVars, crewVars>>

\* line 40: future = run_coroutine_threadsafe(self.client.connect(), self.loop)
StartSubmit(t) ==
    /\ pc[t] = "s_submit"
    /\ Len(futs) < MaxFutures
    /\ futs' = Append(futs, Submitted("connect", bridges[self[t]].loop,
                                      bridges[self[t]].client, None))
    /\ fut' = [fut EXCEPT ![t] = Len(futs) + 1]
    /\ waited' = [waited EXCEPT ![t] = 0]
    /\ made' = [made EXCEPT ![t].subs = @ + 1]
    /\ pc' = [pc EXCEPT ![t] = "s_wait"]
    /\ UNCHANGED <<_bridge, bridges, loops, bgThreads, clients, self, outer, coro, outcome>>
    /\ UNCHANGED <<logVars, crewVars>>

\* line 41: future.result(timeout=30) returns or re-raises connect()'s error
StartResult(t) ==
    /\ pc[t] = "s_wait"
    /\ futs[fut[t]].state # "pending"
    /\ IF futs[fut[t]].state = "ok"
       THEN /\ pc' = [pc EXCEPT ![t] = "s_set"]
            /\ UNCHANGED <<outer, outcome, self, coro, fut, waited>>
       ELSE Done(t, "start", "raise", "ConnectError", self[t])
    /\ futs' = Taken(fut[t])
    /\ UNCHANGED <<_bridge, bridges, loops, bgThreads, clients, made>>
    /\ UNCHANGED <<logVars, crewVars>>

\* line 41: future.result(timeout=30) raises TimeoutError
StartTimeout(t) ==
    /\ pc[t] = "s_wait"
    /\ futs[fut[t]].state = "pending"
    /\ waited[t] >= StartCeiling
    /\ Done(t, "start", "raise", "Timeout", self[t])
    /\ UNCHANGED <<shared, made>>
    /\ UNCHANGED <<logVars, crewVars>>

\* lines 43-44: self._connected = True; print
StartSet(t) ==
    /\ pc[t] = "s_set"
    /\ bridges' = [bridges EXCEPT ![self[t]]._connected = TRUE]
    /\ Done(t, "start", "return", "started", self[t])
    /\ UNCHANGED <<_bridge, loops, bgThreads, clients, futs, made>>
    /\ UNCHANGED <<logVars, crewVars>>


\* -------------------------------------------------------- MCPBridge.stop
\* lines 48-49
stop_check(t, b) ==
    IF ~bridges[b]._connected
    THEN /\ Done(t, "stop", "return", "noop", b)
         /\ UNCHANGED shared
    ELSE /\ pc' = [pc EXCEPT ![t] = "p_submit"]
         /\ self' = [self EXCEPT ![t] = b]
         /\ outcome' = [outcome EXCEPT ![t] = NoOutcome]
         /\ UNCHANGED <<shared, outer, coro, fut, waited>>

\* a caller invokes bridge.stop() on an instance it holds
StopInvoke(t) ==
    /\ Enter(t)
    /\ \E b \in 1..Len(bridges) : stop_check(t, b)
    /\ UNCHANGED <<logVars, crewVars>>

\* stop() entered from cleanup_bridge
StopCheck(t) ==
    /\ pc[t] = "p_check"
    /\ stop_check(t, self[t])
    /\ UNCHANGED made
    /\ UNCHANGED <<logVars, crewVars>>

\* lines 51-52: if self.client: future = run_coroutine_threadsafe(disconnect)
StopSubmit(t) ==
    /\ pc[t] = "p_submit"
    /\ IF bridges[self[t]].client # None
       THEN /\ Len(futs) < MaxFutures
            /\ futs' = Append(futs, Submitted("disconnect", bridges[self[t]].loop,
                                              bridges[self[t]].client, None))
            /\ fut' = [fut EXCEPT ![t] = Len(futs) + 1]
            /\ waited' = [waited EXCEPT ![t] = 0]
            /\ made' = [made EXCEPT ![t].subs = @ + 1]
            /\ pc' = [pc EXCEPT ![t] = "p_wait"]
       ELSE /\ pc' = [pc EXCEPT ![t] = "p_halt"]
            /\ UNCHANGED <<futs, fut, waited, made>>
    /\ UNCHANGED <<_bridge, bridges, loops, bgThreads, clients, self, outer, coro, outcome>>
    /\ UNCHANGED <<logVars, crewVars>>

\* line 53: future.result(timeout=10) returns or re-raises disconnect()'s error
StopResult(t) ==
    /\ pc[t] = "p_wait"
    /\ futs[fut[t]].state # "pending"
    /\ IF futs[fut[t]].state = "ok"
       THEN /\ pc' = [pc EXCEPT ![t] = "p_halt"]
            /\ UNCHANGED <<outer, outcome, self, coro, fut, waited>>
       ELSE Done(t, "stop", "raise", "TeardownError", self[t])
    /\ futs' = Taken(fut[t])
    /\ UNCHANGED <<_bridge, bridges, loops, bgThreads, clients, made>>
    /\ UNCHANGED <<logVars, crewVars>>

\* line 53: future.result(timeout=10) raises TimeoutError
StopTimeout(t) ==
    /\ pc[t] = "p_wait"
    /\ futs[fut[t]].state = "pending"
    /\ waited[t] >= StopCeiling
    /\ Done(t, "stop", "raise", "Timeout", self[t])
    /\ UNCHANGED <<shared, made>>
    /\ UNCHANGED <<logVars, crewVars>>

\* a stop() that leaves the loop running
loop_stop_never(l) == loops

\* line 56: self.loop.call_soon_threadsafe(self.loop.stop)
loop_stop(l) == [loops EXCEPT ![l].stopReq = TRUE]

\* lines 55-56: if self.loop: self.loop.call_soon_threadsafe(self.loop.stop)
StopHalt(t) ==
    /\ pc[t] = "p_halt"
    /\ loops' = IF bridges[self[t]].loop # None
                THEN loop_stop(bridges[self[t]].loop)
                ELSE loops
    /\ pc' = [pc EXCEPT ![t] = "p_clear"]
    /\ UNCHANGED <<_bridge, bridges, bgThreads, clients, futs, self, outer, coro, fut, waited, outcome, made>>
    /\ UNCHANGED <<logVars, crewVars>>

\* lines 58-59: self._connected = False; print
StopClear(t) ==
    /\ pc[t] = "p_clear"
    /\ bridges' = [bridges EXCEPT ![self[t]]._connected = FALSE]
    /\ Done(t, "stop", "return", "stopped", self[t])
    /\ UNCHANGED <<_bridge, loops, bgThreads, clients, futs, made>>
    /\ UNCHANGED <<logVars, crewVars>>

\* -------------------------------------------------- MCPBridge.call_async
\* call_async() guarding on the loop instead of on the connected flag
NotConnectedNoLoop(b) == bridges[b].loop = None

\* line 63: if not self._connected
NotConnected(b) == ~bridges[b]._connected

\* the future kept in a place shared by all callers: the latest submission
LatestFuture(t) == Len(futs)

\* the local variable `future` of the caller's frame
MyFuture(t) == fut[t]

\* call_async() catching the operation's error and raising one of its own
DeliveredWrapped(f) ==
    IF futs[f].state = "ok"
    THEN [kind |-> "return", tag |-> "result", id |-> futs[f].coro]
    ELSE [kind |-> "raise", tag |-> "BridgeError", id |-> 0]

\* line 67: what future.result() hands back for a completed future: the
\* value returned, or the exception raised, by the coroutine it was made for
Delivered(f) ==
    IF futs[f].state = "ok"
    THEN [kind |-> "return", tag |-> "result", id |-> futs[f].coro]
    ELSE [kind |-> "raise", tag |-> "OpError", id |-> futs[f].coro]

\* call_async() cancelling the future it gave up on
CancelOnTimeout(f) == [futs EXCEPT ![f].state = "cancelled"]

\* call_async() submitting the operation again when its wait timed out
ResubmitOnTimeout(f) == Append(futs, futs[f])

\* line 67: the futures after a TimeoutError of future.result()
AfterTimeout(f) == futs

\* lines 63-64; a caller invokes bridge.call_async(coro) on an instance it holds
CallInvoke(t) ==
    /\ Enter(t)
    /\ \E b \in 1..Len(bridges), c \in {CoroOf(t)} :
          IF NotConnected(b)
          THEN /\ pc' = pc
               /\ outcome' = [outcome EXCEPT ![t] =
                     [op |-> "call_async", kind |-> "raise", tag |-> "NotStarted",
                      id |-> b, arg |-> c, at |-> 0]]
               /\ UNCHANGED <<outer, self, coro>>
          ELSE /\ pc' = [pc EXCEPT ![t] = "c_submit"]
               /\ self' = [self EXCEPT ![t] = b]
               /\ coro' = [coro EXCEPT ![t] = c]
               /\ outcome' = [outcome EXCEPT ![t] = NoOutcome]
               /\ UNCHANGED outer
    /\ UNCHANGED <<shared, fut, waited>>
    /\ UNCHANGED <<logVars, crewVars>>

\* line 66: future = run_coroutine_threadsafe(coro, self.loop)
CallSubmit(t) ==
    /\ pc[t] = "c_submit"
    /\ Len(futs) < MaxFutures
    /\ futs' = Append(futs, Submitted("call", bridges[self[t]].loop, None, coro[t]))
    /\ fut' = [fut EXCEPT ![t] = Len(futs) + 1]
    /\ waited' = [waited EXCEPT ![t] = 0]
    /\ made' = [made EXCEPT ![t].subs = @ + 1]
    /\ pc' = [pc EXCEPT ![t] = "c_wait"]
    /\ UNCHANGED <<_bridge, bridges, loops, bgThreads, clients, self, outer, coro, outcome>>
    /\ UNCHANGED <<logVars, crewVars>>

\* line 67: future.result(timeout=60) returns the result or re-raises the error
CallResult(t) ==
    /\ pc[t] = "c_wait"
    /\ futs[MyFuture(t)].state # "pending"
    /\ LET d == Delivered(MyFuture(t))
       IN Done(t, "call_async", d.kind, d.tag, d.id)
    /\ futs' = Taken(MyFuture(t))
    /\ UNCHANGED <<_bridge, bridges, loops, bgThreads, clients, made>>
    /\ UNCHANGED <<logVars, crewVars>>

\* line 67: future.result(timeout=60) raises TimeoutError
CallTimeout(t) ==
    /\ pc[t] = "c_wait"
    /\ futs[MyFuture(t)].state = "pending"
    /\ waited[t] >= CallCeiling
    /\ futs' = AfterTimeout(MyFuture(t))
    /\ Done(t, "call_async", "raise", "Timeout", fut[t])
    /\ UNCHANGED <<_bridge, bridges, loops, bgThreads, clients, made>>
    /\ UNCHANGED <<logVars, crewVars>>

\* ------------------------------------------------------------ get_bridge
\* get_bridge() constructing a bridge on every call
GlobalMissingAlways == TRUE

\* line 77: if _bridge is None
GlobalMissing == _bridge = None

\* lines 76-77, entered from the frame `from`
get_bridge_check(t, from) ==
    /\ outer' = [outer EXCEPT ![t] = from]
    /\ pc' = [pc EXCEPT ![t] = IF GlobalMissing THEN "g_new" ELSE "g_ret"]
    /\ outcome' = [outcome EXCEPT ![t] = NoOutcome]
    /\ UNCHANGED <<shared, self, coro, fut, waited>>

\* a caller invokes get_bridge()
GetBridgeInvoke(t) ==
    /\ Enter(t)
    /\ get_bridge_check(t, "get_bridge")
    /\ UNCHANGED <<logVars, crewVars>>

\* line 78: _bridge = MCPBridge()
GetBridgeNew(t) ==
    /\ pc[t] = "g_new"
    /\ Len(bridges) < MaxBridges
    /\ bridges' = Append(bridges, MCPBridge)
    /\ _bridge' = Len(bridges) + 1
    /\ pc' = [pc EXCEPT ![t] = "g_start"]
    /\ UNCHANGED <<loops, bgThreads, clients, futs, self, outer, coro, fut, waited, outcome, made>>
    /\ UNCHANGED <<logVars, crewVars>>

\* line 79: _bridge.start()  (the global is read again)
GetBridgeStart(t) ==
    /\ pc[t] = "g_start"
    /\ IF _bridge = None
       THEN Done(t, "get_bridge", "raise", "AttributeError", None)
       ELSE /\ self' = [self EXCEPT ![t] = _bridge]
            /\ pc' = [pc EXCEPT ![t] = "s_check"]
            /\ UNCHANGED <<outer, outcome, coro, fut, waited>>
    /\ UNCHANGED <<shared, made>>
    /\ UNCHANGED <<logVars, crewVars>>

\* line 80: return _bridge; in the tool the value is bound to `bridge`
\* (line 118)
GetBridgeReturn(t) ==
    /\ pc[t] = "g_ret"
    /\ IF outer[t] = "sequential_thinking_mcp.get_bridge"
       THEN /\ pc' = [pc EXCEPT ![t] = "t_call"]
            /\ outer' = [outer EXCEPT ![t] = "sequential_thinking_mcp"]
            /\ self' = [self EXCEPT ![t] = _bridge]
            /\ UNCHANGED <<outcome, coro, fut, waited>>
       ELSE Returned(t, "get_bridge", "bridge", _bridge)
    /\ UNCHANGED <<shared, made>>
    /\ UNCHANGED <<logVars, crewVars>>

\* -------------------------------------------------------- cleanup_bridge
\* line 171: if _bridge is not None
CleanupInvoke(t) ==
    /\ Enter(t)
    /\ IF _bridge # None
       THEN /\ outer' = [outer EXCEPT ![t] = "cleanup_bridge"]
            /\ pc' = [pc EXCEPT ![t] = "k_stop"]
            /\ outcome' = [outcome EXCEPT ![t] = NoOutcome]
       ELSE /\ outcome' = [outcome EXCEPT ![t] =
                     [op |-> "cleanup_bridge", kind |-> "return", tag |-> "noop",
                      id |-> None, arg |-> 0, at |-> 0]]
            /\ UNCHANGED <<pc, outer>>
    /\ UNCHANGED <<shared, self, coro, fut, waited>>
    /\ UNCHANGED <<logVars, crewVars>>

\* line 172: _bridge.stop()  (the global is read again)
CleanupStop(t) ==
    /\ pc[t] = "k_stop"
    /\ IF _bridge = None
       THEN Done(t, "cleanup_bridge", "raise", "AttributeError", None)
       ELSE /\ self' = [self EXCEPT ![t] = _bridge]
            /\ pc' = [pc EXCEPT ![t] = "p_check"]
            /\ UNCHANGED <<outer, outcome, coro, fut, waited>>
    /\ UNCHANGED <<shared, made>>
    /\ UNCHANGED <<logVars, crewVars>>

\* line 173: _bridge = None
CleanupClear(t) ==
    /\ pc[t] = "k_clear"
    /\ _bridge' = None
    /\ Returned(t, "cleanup_bridge", "cleaned", self[t])
    /\ UNCHANGED <<bridges, loops, bgThreads, clients, futs, made>>
    /\ UNCHANGED <<logVars, crewVars>>

\* ----------------------------------------------- sequential_thinking_mcp
\* lines 117-118: the pipeline runs the tool; try: bridge = get_bridge()
ToolInvoke(t) ==
    /\ Enter(t)
    /\ get_bridge_check(t, "sequential_thinking_mcp.get_bridge")
    /\ UNCHANGED <<logVars, crewVars>>

\* lines 121-133: the coroutine is built from bridge.client and handed to
\* bridge.call_async(), whose first statement (lines 63-64) tests the flag
ToolCall(t) ==
    /\ pc[t] = "t_call"
    /\ IF NotConnected(self[t])
       THEN Done(t, "call_async", "raise", "NotStarted", self[t])
       ELSE /\ pc' = [pc EXCEPT ![t] = "c_submit"]
            /\ coro' = [coro EXCEPT ![t] = CoroOf(t)]
            /\ UNCHANGED <<outer, outcome, self, fut, waited>>
    /\ UNCHANGED <<shared, made>>
    /\ UNCHANGED <<logVars, crewVars>>

\* ------------------------------------------------------------ search_news
\* the two search tools: parallel_agent_with_mcp.py (1) and
\* parallel_agent_with_mcp_memory.py (2)
SearchTools == {1, 2}

\* what the search client does inside the try block: it yields results,
\* yields none, or raises
SearchRuns == {"results", "empty", "error"}

\* the string search_news returns: the listing, the not-found message, or
\* the diagnostic built in the except clause
search_news(r) ==
    CASE r = "results" -> [kind |-> "return", tag |-> "listing"]
      [] r = "empty" -> [kind |-> "return", tag |-> "not_found"]
      [] r = "error" -> [kind |-> "diagnostic", tag |-> "SearchError"]

\* the pipeline runs one of the search tools
SearchNews(t) ==
    /\ Enter(t)
    /\ \E v \in SearchTools, r \in SearchRuns :
          outcome' = [outcome EXCEPT ![t] =
                        [op |-> "search_news", kind |-> search_news(r).kind,
                         tag |-> search_news(r).tag, id |-> v, arg |-> 0, at |-> 0]]
    /\ UNCHANGED <<shared, pc, self, outer, coro, fut, waited>>
    /\ UNCHANGED <<logVars, crewVars>>

\* a caller constructs a bridge of its own: MCPBridge()
NewBridge(t) ==
    /\ Enter(t)
    /\ Len(bridges) < MaxBridges
    /\ bridges' = Append(bridges, MCPBridge)
    /\ outcome' = [outcome EXCEPT ![t] =
                     [op |-> "MCPBridge", kind |-> "return", tag |-> "bridge",
                      id |-> Len(bridges) + 1, arg |-> 0, at |-> 0]]
    /\ UNCHANGED <<_bridge, loops, bgThreads, clients, futs, pc, self, outer, coro, fut, waited>>
    /\ UNCHANGED <<logVars, crewVars>>

\* ------------------------------------------------- the background threads
\* the loop a future was submitted to is being run by its thread, and the
\* task of the future was queued ahead of any loop.stop
Served(f) ==
    /\ futs[f].state = "pending"
    /\ loops[futs[f].loop].state = "running"
    /\ ~futs[f].late

\* MCPSequentialThinkingClient.connect completes: the handshake succeeds
\* (session set, initialize() returned), fails before the session exists,
\* or fails in initialize() with the session already assigned.
RunConnect(f) ==
    /\ f \in 1..Len(futs) /\ futs[f].kind = "connect" /\ Served(f)
    /\ \E r \in ConnectRuns :
          /\ futs' = [futs EXCEPT ![f].state = IF r = "ok" THEN "ok" ELSE "err"]
          /\ clients' = [clients EXCEPT ![futs[f].client] = connect(@, r)]
          /\ loops' = [loops EXCEPT ![futs[f].loop].ready = @ \/ (r = "ok")]
    /\ UNCHANGED <<_bridge, bridges, bgThreads, locals>>
    /\ UNCHANGED <<logVars, crewVars>>

\* MCPSequentialThinkingClient.disconnect completes (session is left as it is)
RunDisconnect(f) ==
    /\ f \in 1..Len(futs) /\ futs[f].kind = "disconnect" /\ Served(f)
    /\ \E r \in DisconnectRuns :
          /\ futs' = [futs EXCEPT ![f].state =
                         IF clients[futs[f].client].session THEN r ELSE "ok"]
          /\ clients' = [clients EXCEPT ![futs[f].client] = disconnect(@, r)]
    /\ UNCHANGED <<_bridge, bridges, loops, bgThreads, locals>>
    /\ UNCHANGED <<logVars, crewVars>>

\* the coroutine given to call_async completes with its own result or error
RunCall(f) ==
    /\ f \in 1..Len(futs) /\ futs[f].kind = "call" /\ Served(f)
    /\ \E r \in {"ok", "err"} : futs' = [futs EXCEPT ![f].state = r]
    /\ UNCHANGED <<_bridge, bridges, loops, bgThreads, clients, locals>>
    /\ UNCHANGED <<logVars, crewVars>>

\* loop.stop() scheduled by stop() runs: run_forever returns, the thread ends
LoopHalt(l) ==
    /\ l \in 1..Len(loops)
    /\ loops[l].state = "running" /\ loops[l].stopReq
    /\ loops' = [loops EXCEPT ![l].state = "stopped", ![l].stopReq = FALSE]
    /\ bgThreads' = [i \in 1..Len(bgThreads) |->
                       IF bgThreads[i].target = l
                       THEN [bgThreads[i] EXCEPT !.alive = FALSE]
                       ELSE bgThreads[i]]
    /\ UNCHANGED <<_bridge, bridges, clients, futs, locals>>
    /\ UNCHANGED <<logVars, crewVars>>

\* ------------------------------------------------------------------ time
\* Time passes for every caller blocked in future.result(); a caller whose
\* ceiling has elapsed leaves its wait before more time passes.
Tick ==
    /\ \E t \in Callers : Waiting(t)
    /\ \A t \in Callers : Waiting(t) => waited[t] < Ceiling(t)
    /\ waited' = [t \in Callers |->
                    IF Waiting(t) THEN Min(waited[t] + Quantum, Ceiling(t)) ELSE waited[t]]
    /\ UNCHANGED <<shared, pc, self, outer, coro, fut, outcome, made>>
    /\ UNCHANGED <<logVars, crewVars>>

\* --------------------------------- MCPSequentialThinkingClient used directly
\* how an operation on client c ended, as seen by the task that awaited it
ClientOutcome(op, kind, tag, c) ==
    [op |-> op, kind |-> kind, tag |-> tag, id |-> c, arg |-> 0, at |-> 0]

\* mcp_client.py line 161 (and get_mcp_client, lines 151-156): a client is
\* constructed
ClientNew(t) ==
    /\ pc[t] = "idle"
    /\ Len(clients) < MaxClients
    /\ clients' = Append(clients, MCPSequentialThinkingClient)
    /\ outcome' = [outcome EXCEPT ![t] =
                     ClientOutcome("MCPSequentialThinkingClient", "return", "client",
                                   Len(clients) + 1)]
    /\ UNCHANGED <<_bridge, bridges, loops, bgThreads, futs,
                   pc, self, outer, coro, fut, waited, made>>
    /\ UNCHANGED <<logVars, crewVars>>

\* await client.connect()
ClientConnect(t) ==
    /\ pc[t] = "idle"
    /\ \E c \in 1..Len(clients), r \in ConnectRuns :
          /\ clients' = [clients EXCEPT ![c] = connect(@, r)]
          /\ outcome' = [outcome EXCEPT ![t] =
                IF r = "ok" THEN ClientOutcome("connect", "return", "connected", c)
                ELSE ClientOutcome("connect", "raise", "ConnectError", c)]
    /\ UNCHANGED <<_bridge, bridges, loops, bgThreads, futs,
                   pc, self, outer, coro, fut, waited, made>>
    /\ UNCHANGED <<logVars, crewVars>>

\* await client.disconnect()
ClientDisconnect(t) ==
    /\ pc[t] = "idle"
    /\ \E c \in 1..Len(clients), r \in DisconnectRuns :
          /\ clients' = [clients EXCEPT ![c] = disconnect(@, r)]
          /\ outcome' = [outcome EXCEPT ![t] =
                IF ~clients[c].session THEN ClientOutcome("disconnect", "return", "noop", c)
                ELSE IF r = "ok" THEN ClientOutcome("disconnect", "return", "closed", c)
                ELSE ClientOutcome("disconnect", "raise", "CloseError", c)]
    /\ UNCHANGED <<_bridge, bridges, loops, bgThreads, futs,
                   pc, self, outer, coro, fut, waited, made>>
    /\ UNCHANGED <<logVars, crewVars>>

\* await client.call_tool(name, arguments) / await client.list_tools()
ClientRequest(t, op) ==
    /\ pc[t] = "idle"
    /\ \E c \in 1..Len(clients), r \in SessionRuns :
          outcome' = [outcome EXCEPT ![t] =
                ClientOutcome(op, call_tool(clients[c], r).kind,
                              call_tool(clients[c], r).tag, c)]
    /\ UNCHANGED <<shared, pc, self, outer, coro, fut, waited, made>>
    /\ UNCHANGED <<logVars, crewVars>>

ClientCallTool(t) == ClientRequest(t, "call_tool")

ClientListTools(t) == ClientRequest(t, "list_tools")

\* ---------------------------------------------------------- crew.kickoff
\* the tasks whose agent has the search tool
SearchTaskNames == {"bbc_task", "cnn_task", "reuters_task"}

\* the tasks executed so far that are named in a context, in context order
RECURSIVE ContextOutputs(_, _)
ContextOutputs(context, done) ==
    IF context = <<>> THEN <<>>
    ELSE LET found == SelectSeq(done, LAMBDA o : o.task = Head(context))
         IN (IF found = <<>> THEN <<>> ELSE <<[task |-> found[1].task, output |-> found[1].output]>>)
            \o ContextOutputs(Tail(context), done)

\* run_advanced_analysis / run_advanced_analysis_with_memory assemble the
\* tasks and the crew
NewCrew ==
    /\ crew = NoCrew
    /\ \E p \in Pipelines : crew' = Crew(p)
    /\ outputs' = <<>>
    /\ UNCHANGED <<bridgeVars, logVars>>

\* crew.kickoff() with Process.sequential executes the next task of the
\* task list: the task is given the outputs of the tasks in its context
\* that have been executed, and its agent produces an output (for a search
\* task, what search_news returned to the agent)
TaskExecute ==
    /\ Len(outputs) < Len(crew.tasks)
    /\ LET task == crew.tasks[Len(outputs) + 1]
       IN \E r \in SearchRuns :
             /\ task.name \notin SearchTaskNames => r = "results"
             /\ outputs' = Append(outputs,
                   [task |-> task.name, agent |-> task.agent,
                    context |-> ContextOutputs(task.context, outputs),
                    output |-> IF task.name \in SearchTaskNames
                               THEN search_news(r).tag ELSE "done"])
    /\ UNCHANGED crew
    /\ UNCHANGED <<bridgeVars, logVars>>

\* ------------------------------------------- operations on the step logs
\* the content of the next step or thought: a text not used before
NextThought == Len(hist) + Len(thist) + 1

\* the arguments of an add_step call as the caller gave them (metadata left
\* out or empty: no items)
Given(thought, n, total, md) ==
    [thought |-> thought, step_number |-> n, total_steps |-> total, metadata |-> md.items]

\* lines 46-62: SequentialThinkingProcess.add_step on the shared instance
AddStep ==
    /\ Len(hist) + Len(thist) < MaxLogOps
    /\ \E n \in 1..MaxNumber, total \in Totals, md \in MetadataArgs :
          LET step == ThinkingStep(NextThought, n, total, md)
          IN /\ steps' = steps_append(steps, step)
             /\ current_step' = Len(steps')
             /\ ret' = Ret("add_step", step, <<>>, 0)
             /\ hist' = Append(hist, Given(NextThought, n, total, md))
    /\ UNCHANGED <<thoughts, current_thought, thist>>
    /\ UNCHANGED <<bridgeVars, crewVars>>

\* lines 64-69: SequentialThinkingProcess.get_step
GetStep ==
    /\ \E n \in 1..MaxNumber : ret' = Ret("get_step", get_step(steps, n), <<>>, n)
    /\ steps' = AfterReading(steps)
    /\ UNCHANGED <<current_step, thoughts, current_thought, hist, thist>>
    /\ UNCHANGED <<bridgeVars, crewVars>>

\* lines 71-93 (and the get_thinking_summary tool, lines 179-195)
GetSummary ==
    /\ ret' = Ret("get_summary", NoStep, get_summary(steps), 0)
    /\ steps' = AfterReading(steps)
    /\ UNCHANGED <<current_step, thoughts, current_thought, hist, thist>>
    /\ UNCHANGED <<bridgeVars, crewVars>>

\* lines 95-98: reset(), called as `via`
Resets(via, n) ==
    /\ Len(hist) + Len(thist) < MaxLogOps
    /\ steps' = reset(steps)
    /\ current_step' = 0
    /\ ret' = Ret(via, NoStep, <<>>, n)
    /\ hist' = Append(hist, NoStep)
    /\ UNCHANGED <<thoughts, current_thought, thist>>
    /\ UNCHANGED <<bridgeVars, crewVars>>

\* SequentialThinkingProcess.reset on the shared instance
Reset == Resets("reset", 0)

\* lines 198-211: the clear_thinking tool reports the number of steps dropped
ClearThinking == Resets("clear_thinking", Len(steps))

\* lines 214-216: reset_thinking_process()
ResetThinkingProcess == Resets("reset_thinking_process", 0)

\* lines 105-176: the think_step tool: the step is added to the shared log
\* (lines 147-152), then the response is built (lines 155-176)
ThinkStep ==
    /\ Len(hist) + Len(thist) < MaxLogOps
    /\ \E n \in 1..MaxNumber, total \in ThinkTotals, context \in Contexts :
          LET md == think_step_metadata(context)
              step == ThinkingStep(NextThought, n, total, md)
          IN /\ steps' = steps_append(steps, step)
             /\ current_step' = Len(steps')
             /\ ret' = think_step_response(NextThought, n, total, context, Len(steps'))
             /\ hist' = Append(hist, Given(NextThought, n, total, md))
    /\ UNCHANGED <<thoughts, current_thought, thist>>
    /\ UNCHANGED <<bridgeVars, crewVars>>

\* mcp_thinking_tool.py lines 20-23: add_thought(thought_data)
AddThought ==
    /\ Len(hist) + Len(thist) < MaxLogOps
    /\ \E n \in 1..MaxNumber, total \in Totals :
          LET thought_data ==
                  [thought |-> NextThought, thoughtNumber |-> n, totalThoughts |-> total]
          IN /\ thoughts' = Append(thoughts, thought_data)
             /\ current_thought' = Len(thoughts')
             /\ ret' = Ret("add_thought", NoStep, <<>>, 0)
             /\ thist' = Append(thist, thought_data)
    /\ UNCHANGED <<steps, current_step, hist>>
    /\ UNCHANGED <<bridgeVars, crewVars>>

\* mcp_thinking_tool.py lines 115-125: get_thinking_summary
GetThinkingSummary ==
    /\ ret' = Ret("get_thinking_summary", NoStep, ThinkingProcess_get_summary(thoughts), 0)
    /\ UNCHANGED <<steps, current_step, thoughts, current_thought, hist, thist>>
    /\ UNCHANGED <<bridgeVars, crewVars>>

\* mcp_thinking_tool.py lines 128-131: reset_thinking_process() binds the
\* global to a new ThinkingProcess()
NewThinkingProcess ==
    /\ Len(hist) + Len(thist) < MaxLogOps
    /\ thoughts' = <<>>
    /\ current_thought' = 0
    /\ ret' = Ret("mcp_thinking_tool.reset_thinking_process", NoStep, <<>>, 0)
    /\ thist' = Append(thist, NoThought)
    /\ UNCHANGED <<steps, current_step, hist>>
    /\ UNCHANGED <<bridgeVars, crewVars>>

\* ---------------------------------------------------------- specification
Main == 1

\* a statement of start(), stop(), get_bridge(), cleanup_bridge() or MCPBridge()
LifecycleStep(t) ==
    \/ StartInvoke(t) \/ StartCheck(t) \/ StartNewLoop(t) \/ StartThread(t)
    \/ StartClient(t) \/ StartSubmit(t) \/ StartResult(t) \/ StartTimeout(t)
    \/ StartSet(t)
    \/ StopInvoke(t) \/ StopCheck(t) \/ StopSubmit(t) \/ StopResult(t)
    \/ StopTimeout(t) \/ StopHalt(t) \/ StopClear(t)
    \/ GetBridgeInvoke(t) \/ GetBridgeNew(t) \/ GetBridgeStart(t) \/ GetBridgeReturn(t)
    \/ CleanupInvoke(t) \/ CleanupStop(t) \/ CleanupClear(t)
    \/ NewBridge(t)

\* a statement of sequential_thinking_mcp() outside the functions it calls,
\* or a run of search_news()
ToolStep(t) == ToolInvoke(t) \/ ToolCall(t) \/ SearchNews(t)

\* a statement of call_async()
CallStep(t) == CallInvoke(t) \/ CallSubmit(t) \/ CallResult(t) \/ CallTimeout(t)

Background ==
    \/ \E f \in 1..MaxFutures : RunConnect(f) \/ RunDisconnect(f) \/ RunCall(f)
    \/ \E l \in 1..MaxLoops : LoopHalt(l)

\* One caller thread uses the bridge (the pipelines of this repository run
\* their tools one at a time).
Next ==
    \/ LifecycleStep(Main)
    \/ CallStep(Main)
    \/ ToolStep(Main)
    \/ Background
    \/ Tick

Spec == Init /\ [][Next]_vars

\* Several caller threads share a bridge: the main thread has constructed it
\* and starts it, and every thread issues calls through it.
Workers == Callers \ {Main}

StartStep(t) ==
    \/ StartInvoke(t) \/ StartNewLoop(t) \/ StartThread(t) \/ StartClient(t)
    \/ StartSubmit(t) \/ StartResult(t) \/ StartTimeout(t) \/ StartSet(t)

\* the shared bridge has been constructed (lines 19-23) and nothing else has run
InitConc ==
    /\ _bridge = None
    /\ bridges = <<MCPBridge>>
    /\ loops = <<>>
    /\ bgThreads = <<>>
    /\ clients = <<>>
    /\ futs = <<>>
    /\ pc = [t \in Callers |-> "idle"]
    /\ self = [t \in Callers |-> None]
    /\ outer = [t \in Callers |-> "none"]
    /\ coro = [t \in Callers |-> None]
    /\ fut = [t \in Callers |-> None]
    /\ waited = [t \in Callers |-> 0]
    /\ outcome = [t \in Callers |-> NoOutcome]
    /\ made = [t \in Callers |-> NoneMade]
    /\ LogInit
    /\ CrewInit

NextConc ==
    \/ StartStep(Main)
    \/ \E t \in Callers : CallStep(t)
    \/ \E f \in 1..MaxFutures : RunConnect(f) \/ RunCall(f)
    \/ Tick

SpecConc == InitConc /\ [][NextConc]_vars

\* The main thread starts and stops the shared bridge while the other
\* threads issue calls through it.
StopStep(t) ==
    \/ StopInvoke(t) \/ StopSubmit(t) \/ StopResult(t) \/ StopTimeout(t)
    \/ StopHalt(t) \/ StopClear(t)

NextShutdown ==
    \/ StartStep(Main)
    \/ StopStep(Main)
    \/ \E t \in Workers : CallStep(t)
    \/ Background
    \/ Tick

SpecShutdown == InitConc /\ [][NextShutdown]_vars

\* The main thread starts and stops the shared bridge while one other thread
\* issues calls through it.
Other == Main + 1

NextStopCall ==
    \/ StartStep(Main)
    \/ StopStep(Main)
    \/ CallStep(Other)
    \/ Background
    \/ Tick

SpecStopCall == InitConc /\ [][NextStopCall]_vars

\* The thread of a loop keeps running it: a loop.stop that has been queued
\* on a running loop is eventually run (run_forever handles its queue in
\* every iteration).
SpecStopCallLive ==
    InitConc /\ [][NextStopCall]_vars /\ \A l \in 1..MaxLoops : WF_vars(LoopHalt(l))


\* Two threads obtain and start the bridge at the same time: each makes one
\* call, of get_bridge() or of start() on the instance the global holds.
FirstCall(t) == outcome[t].op = "none"

GetBridgeStep(t) ==
    \/ FirstCall(t) /\ GetBridgeInvoke(t)
    \/ GetBridgeNew(t) \/ GetBridgeStart(t) \/ StartCheck(t) \/ GetBridgeReturn(t)

StartOnceStep(t) ==
    \/ FirstCall(t) /\ StartInvoke(t)
    \/ StartNewLoop(t) \/ StartThread(t) \/ StartClient(t)
    \/ StartSubmit(t) \/ StartResult(t) \/ StartTimeout(t) \/ StartSet(t)

NextStartRace ==
    \/ \E t \in {Main, Other} : GetBridgeStep(t) \/ StartOnceStep(t)
    \/ \E f \in 1..MaxFutures : RunConnect(f)
    \/ Tick

SpecStartRace == Init /\ [][NextStartRace]_vars

\* One task uses clients of its own (test_mcp_client, mcp_client.py lines
\* 159-202), awaiting one operation at a time.
NextClient ==
    \/ ClientNew(Main) \/ ClientConnect(Main) \/ ClientDisconnect(Main)
    \/ ClientCallTool(Main) \/ ClientListTools(Main)

SpecClient == Init /\ [][NextClient]_vars

\* One of the pipelines assembles its crew and runs it.
NextCrew == NewCrew \/ TaskExecute

SpecCrew == Init /\ [][NextCrew]_vars

\* One thread works on the step logs (their intended use).
NextLog ==
    \/ AddStep \/ GetStep \/ GetSummary
    \/ Reset \/ ClearThinking \/ ResetThinkingProcess
    \/ AddThought \/ GetThinkingSummary \/ NewThinkingProcess

SpecLog == Init /\ [][NextLog]_vars

\* One agent works with the tools of sequential_thinking.py (THINKING_TOOLS,
\* lines 220-224).
NextThink == ThinkStep \/ GetSummary \/ ClearThinking

SpecThink == Init /\ [][NextThink]_vars


\* ==================================================================== claims
\* caller t has just come back from `op` with the outcome kind/tag
Ended(t, op, kind, tag) ==
    /\ pc[t] = "idle"
    /\ outcome[t].op = op /\ outcome[t].kind = kind /\ outcome[t].tag = tag

\* the step is caller t entering start() on bridge b
StartsOn(t, b) == Enter(t) /\ start_check(t, b)

\* the step is caller t entering call_async() on bridge b
CallsOn(t, b) ==
    /\ CallInvoke(t)
    /\ IF pc'[t] = "c_submit" THEN self'[t] = b ELSE outcome'[t].id = b

\* the step is caller t entering stop() on bridge b
StopsOn(t, b) == Enter(t) /\ stop_check(t, b)

\* C1: start() called again right after a start() that succeeded on the same
\* bridge returns at once and changes nothing (no loop, thread, client or
\* handshake is created, the connected flag stays set); the start() that
\* connected the bridge created exactly one loop and submitted exactly one
\* handshake, so the two calls together made one background context and one
\* handshake.
C1_SecondStartStep ==
    \A t \in Callers :
        (Ended(t, "start", "return", "started") \/ Ended(t, "start", "return", "noop"))
        /\ StartsOn(t, outcome[t].id)
        => /\ pc'[t] = "idle"
           /\ outcome'[t].kind = "return" /\ outcome'[t].tag = "noop"
           /\ made'[t] = NoneMade
           /\ UNCHANGED shared

C1_OneContext ==
    \A t \in Callers :
        /\ Ended(t, "start", "return", "started") => made[t] = [loops |-> 1, subs |-> 1]
        /\ Ended(t, "start", "return", "noop") => made[t] = NoneMade

C1_StartTwice == [][C1_SecondStartStep]_vars /\ []C1_OneContext

\* the second start() has returned on a connected bridge with one loop, one
\* thread, one client and one handshake in existence
C1_Witness ==
    \E t \in Callers :
        /\ Ended(t, "start", "return", "noop")
        /\ bridges[outcome[t].id]._connected
        /\ Len(loops) = 1 /\ Len(bgThreads) = 1 /\ Len(clients) = 1 /\ Len(futs) = 1

\* C2: call_async() on a bridge whose connected flag is clear raises the
\* not-started error in its first statement, submits nothing and creates
\* nothing: every shared object is left as it was.
C2_RejectedStep ==
    \A t \in Callers : \A b \in 1..Len(bridges) :
        CallsOn(t, b) /\ ~bridges[b]._connected
        => /\ pc'[t] = "idle"
           /\ outcome'[t].op = "call_async" /\ outcome'[t].kind = "raise"
           /\ outcome'[t].tag = "NotStarted"
           /\ made'[t] = NoneMade
           /\ UNCHANGED shared

C2_CallBeforeStart == [][C2_RejectedStep]_vars

\* a call was rejected on a bridge that had been started and then stopped
C2_Witness ==
    \E t \in Callers :
        /\ Ended(t, "call_async", "raise", "NotStarted")
        /\ made[t] = NoneMade
        /\ bridges[outcome[t].id].loop # None
        /\ loops[bridges[outcome[t].id].loop].ready
        /\ ~bridges[outcome[t].id]._connected

\* a call was rejected on a bridge that was never started
C2_WitnessNeverStarted ==
    \E t \in Callers :
        /\ Ended(t, "call_async", "raise", "NotStarted")
        /\ bridges[outcome[t].id].loop = None
        /\ Len(loops) = 0


\* caller t takes a step of its own
Steps(t) == pc'[t] # pc[t] \/ outcome'[t] # outcome[t]

\* C3: a call_async() that returns normally returns the result of the
\* coroutine this caller passed in, also with other callers' operations
\* pending on the same loop and completed in any order.
C3_OwnResult ==
    \A t \in Callers :
        Ended(t, "call_async", "return", "result") => outcome[t].id = outcome[t].arg

\* one caller has its result while another, whose different operation was
\* submitted earlier, is still waiting: the loop completed them out of order
C3_Witness ==
    \E t, u \in Callers :
        /\ Ended(t, "call_async", "return", "result")
        /\ pc[u] = "c_wait" /\ coro[u] # outcome[t].arg
        /\ \E f \in 1..Len(futs) : f > fut[u] /\ futs[f].state = "taken"

\* C4: when the submitted operation raises, call_async() raises that same
\* error (the error of the caller's own operation, not wrapped), and leaves
\* the bridge, its loop and its client as they were: the bridge is still
\* connected.
C4_ErrorStep ==
    \A t \in Callers :
        pc[t] = "c_wait" /\ outer[t] = "none" /\ futs[fut[t]].state = "err" /\ Steps(t)
        => /\ pc'[t] = "idle"
           /\ outcome'[t].op = "call_async" /\ outcome'[t].kind = "raise"
           /\ outcome'[t].tag = "OpError"
           /\ outcome'[t].id = futs[fut[t]].coro /\ outcome'[t].id = coro[t]
           /\ UNCHANGED <<_bridge, bridges, loops, bgThreads, clients>>
           /\ bridges'[self[t]]._connected

C4_ErrorPassThrough == [][C4_ErrorStep]_vars

\* the operation's error has reached the caller and the bridge it used is
\* still connected on a running loop
C4_Witness ==
    \E t \in Callers :
        /\ Ended(t, "call_async", "raise", "OpError")
        /\ outcome[t].id = outcome[t].arg
        /\ Len(bridges) = 1 /\ bridges[1]._connected
        /\ loops[bridges[1].loop].state = "running"

\* C5: a call_async() whose operation is still pending gives up with a
\* timeout error when 60 time units have passed, not earlier and not later.
C5_TimeoutStep ==
    \A t \in Callers :
        pc[t] = "c_wait" /\ futs[fut[t]].state = "pending" /\ Steps(t)
        => /\ waited[t] = 60
           /\ pc'[t] = "idle"
           /\ outer[t] = "none" =>
                 outcome'[t].op = "call_async" /\ outcome'[t].kind = "raise"
           /\ outcome'[t].tag = "Timeout" /\ outcome'[t].at = 60

C5_NeverLate == \A t \in Callers : pc[t] = "c_wait" => waited[t] <= 60

C5_TimeoutAtCeiling == [][C5_TimeoutStep]_vars /\ []C5_NeverLate

\* a call has timed out
C5_Witness ==
    \E t \in Callers :
        Ended(t, "call_async", "raise", "Timeout") /\ outcome[t].at = 60

\* C6: the timeout of call_async() changes nothing but the caller: the
\* future is not cancelled and stays pending on its loop, the bridge keeps
\* its connected flag, loop and client.
C6_TimeoutFrame ==
    \A t \in Callers :
        pc[t] = "c_wait" /\ Steps(t) /\ outcome'[t].tag = "Timeout"
        => /\ futs' = futs /\ futs[fut[t]].state = "pending"
           /\ UNCHANGED <<_bridge, bridges, loops, bgThreads, clients>>
           /\ bridges'[self[t]]._connected

C6_TimeoutOnlyStopsWaiting == [][C6_TimeoutFrame]_vars

\* after a timeout the abandoned operation has run to completion on the
\* loop, and a later call_async() has been accepted and submitted
C6_Witness ==
    \E t \in Callers :
        /\ pc[t] = "c_wait"
        /\ \E f \in 1..Len(futs) :
              f < fut[t] /\ futs[f].kind = "call" /\ futs[f].state = "ok"

\* C7: a start() whose handshake fails, or is still pending after 30 time
\* units, raises and leaves the connected flag clear; start() called again
\* on that bridge goes on to a new handshake instead of returning at once,
\* and a start() whose handshake succeeds sets the connected flag.
C7_FailStep ==
    \A t \in Callers :
        /\ pc[t] = "s_wait" /\ Steps(t)
        /\ futs[fut[t]].state = "err" \/ futs[fut[t]].state = "pending"
        => /\ futs[fut[t]].state = "pending" => waited[t] = 30 /\ outcome'[t].tag = "Timeout"
           /\ futs[fut[t]].state = "err" => outcome'[t].tag = "ConnectError"
           /\ pc'[t] = "idle"
           /\ outer[t] \notin ToolFrames => outcome'[t].kind = "raise"
           /\ outcome'[t].id = self[t]
           /\ bridges' = bridges /\ ~bridges[self[t]]._connected

C7_RetryStep ==
    \A t \in Callers :
        /\ pc[t] = "idle" /\ outcome[t].op = "start" /\ outcome[t].kind = "raise"
        /\ StartsOn(t, outcome[t].id)
        => pc'[t] = "s_loop" /\ self'[t] = outcome[t].id

C7_SuccessStep ==
    \A t \in Callers :
        /\ (pc[t] = "s_wait" /\ futs[fut[t]].state = "ok" /\ Steps(t)
               => pc'[t] = "s_set")
        /\ (pc[t] = "s_set" /\ Steps(t)
               => /\ bridges'[self[t]]._connected
                  /\ outer[t] = "none" => outcome'[t].tag = "started")

C7_OneAttemptEach ==
    \A t \in Callers :
        pc[t] = "idle" /\ outcome[t].op = "start" /\ outcome[t].tag # "noop"
        => made[t] = [loops |-> 1, subs |-> 1]

C7_FailedStartRestartable ==
    [][C7_FailStep /\ C7_RetryStep /\ C7_SuccessStep]_vars /\ []C7_OneAttemptEach

\* the bridge is connected by its second start(): the first one's handshake,
\* on the first loop, never succeeded
C7_Witness ==
    \E t \in Callers :
        /\ Ended(t, "start", "return", "started")
        /\ Len(bridges) = 1 /\ bridges[1]._connected
        /\ Len(loops) = 2 /\ ~loops[1].ready /\ loops[2].ready
        /\ bridges[1].loop = 2


\* the loop of bridge b has been told to stop, or has stopped
Halting(b) ==
    bridges[b].loop # None =>
        loops[bridges[b].loop].stopReq \/ loops[bridges[b].loop].state = "stopped"

\* C8: a stop() (or cleanup_bridge()) that found the bridge connected and
\* submitted the teardown always ends by returning, with the loop told to
\* halt and the connected flag clear, also when the teardown failed or was
\* still pending after 10 time units.
C8_StopNeverFails ==
    \A t \in Callers :
        /\ pc[t] = "idle" /\ outcome[t].op \in {"stop", "cleanup_bridge"}
        /\ made[t].subs > 0
        => /\ outcome[t].kind = "return"
           /\ ~bridges[outcome[t].id]._connected
           /\ Halting(outcome[t].id)

\* what the code does there: the TimeoutError of future.result(timeout=10)
\* leaves stop() at line 53, with the bridge still connected and its loop
\* never told to stop
C8_TimeoutEscapes ==
    \A t \in Callers :
        pc[t] = "idle" /\ outcome[t].op \in {"stop", "cleanup_bridge"} /\ outcome[t].kind = "raise"
        => /\ outcome[t].tag \in {"Timeout", "TeardownError"}
           /\ outcome[t].tag = "Timeout" => outcome[t].at = 10
           /\ bridges[outcome[t].id]._connected
           /\ ~Halting(outcome[t].id)

\* C9: stop() on a bridge that is not connected and cleanup_bridge() with no
\* global bridge return without error and change nothing; and a stop() or
\* cleanup_bridge() called right after another one is such a no-op.
C9_NoOpStep ==
    \A t \in Callers :
        /\ \A b \in 1..Len(bridges) :
              StopsOn(t, b) /\ ~bridges[b]._connected
              => /\ pc'[t] = "idle"
                 /\ outcome'[t].kind = "return" /\ outcome'[t].tag = "noop"
                 /\ made'[t] = NoneMade
                 /\ UNCHANGED shared
        /\ CleanupInvoke(t) /\ _bridge = None
              => /\ pc'[t] = "idle"
                 /\ outcome'[t].kind = "return" /\ outcome'[t].tag = "noop"
                 /\ made'[t] = NoneMade
                 /\ UNCHANGED shared

C9_SecondStep ==
    \A t \in Callers :
        /\ pc[t] = "idle" /\ outcome[t].op = "stop" /\ StopsOn(t, outcome[t].id)
              => pc'[t] = "idle" /\ outcome'[t].tag = "noop" /\ UNCHANGED shared
        /\ pc[t] = "idle" /\ outcome[t].op = "cleanup_bridge" /\ CleanupInvoke(t)
              => pc'[t] = "idle" /\ outcome'[t].tag = "noop" /\ UNCHANGED shared

C9_StopIdempotent == [][C9_NoOpStep /\ C9_SecondStep]_vars

\* the part of C9 the code keeps: the no-op on a bridge that is not connected
C9_NotConnectedNoOp == [][C9_NoOpStep]_vars

\* C10: with one thread in start() and others in call_async() on the same
\* bridge, every operation on a loop was submitted after the handshake on
\* that loop had completed; no call is accepted while start() is between its
\* first and its last statement, and a call that is not accepted raises the
\* not-started error.
InStart(t) == pc[t] \in {"s_loop", "s_thread", "s_client", "s_submit", "s_wait", "s_set"}
InCall(t) == pc[t] \in {"c_submit", "c_wait"}

C10_NoCallBeforeHandshake ==
    /\ \A f \in 1..Len(futs) : futs[f].kind = "call" => loops[futs[f].loop].ready
    /\ \A t \in Callers :
          InCall(t) => /\ bridges[self[t]]._connected
                       /\ loops[bridges[self[t]].loop].ready
    /\ \A t, u \in Callers : InStart(u) /\ InCall(t) => self[t] # self[u]
    /\ \A t \in Callers :
          pc[t] = "idle" /\ outcome[t].op = "call_async" /\ made[t].subs = 0
          => outcome[t].kind = "raise" /\ outcome[t].tag = "NotStarted"

\* a call made while start() was waiting for the handshake has been refused
C10_Witness ==
    \E t, u \in Callers :
        /\ pc[u] = "s_wait" /\ futs[fut[u]].state = "pending"
        /\ Ended(t, "call_async", "raise", "NotStarted")
        /\ outcome[t].id = self[u]

\* the operations submitted through call_async() that the loop of bridge b
\* has not completed yet
InFlight(b) ==
    {f \in 1..Len(futs) : /\ futs[f].kind = "call" /\ futs[f].state = "pending"
                          /\ futs[f].loop = bridges[b].loop}

\* C11: on every bridge at most one operation submitted through call_async()
\* is pending at any time, also with several threads calling concurrently.
C11_SingleInFlight ==
    \A b \in 1..Len(bridges) : Cardinality(InFlight(b)) <= 1

\* C12: a get_bridge() called after a get_bridge() that returned finds the
\* global set and goes straight to its return statement: it constructs no
\* bridge and starts nothing; every get_bridge() returns the instance the
\* global holds, which no step of get_bridge() after the construction
\* changes; the call that constructed and connected the bridge made exactly
\* one loop and one handshake, and a call that found the global set made none.
C12_AgainStep ==
    \A t \in Callers :
        Ended(t, "get_bridge", "return", "bridge") /\ GetBridgeInvoke(t)
        => /\ pc'[t] = "g_ret"
           /\ made'[t] = NoneMade
           /\ _bridge' = outcome[t].id
           /\ UNCHANGED shared

C12_ReturnStep ==
    \A t \in Callers :
        pc[t] = "g_ret" /\ outer[t] = "get_bridge" /\ Steps(t)
        => /\ outcome'[t].op = "get_bridge" /\ outcome'[t].kind = "return"
           /\ outcome'[t].id = _bridge /\ _bridge # None
           /\ UNCHANGED shared

C12_StartedOnce ==
    \A t \in Callers :
        Ended(t, "get_bridge", "return", "bridge")
        => /\ outcome[t].id = _bridge /\ _bridge # None
           /\ made[t] = NoneMade \/ made[t] = [loops |-> 1, subs |-> 1]
           /\ made[t] = [loops |-> 1, subs |-> 1] => bridges[_bridge]._connected

C12_SameInstance == [][C12_AgainStep /\ C12_ReturnStep]_vars /\ []C12_StartedOnce

\* a later get_bridge() has returned the connected bridge of the first one:
\* one bridge, one loop, one thread, one client and one handshake exist
C12_Witness ==
    \E t \in Callers :
        /\ Ended(t, "get_bridge", "return", "bridge") /\ made[t] = NoneMade
        /\ outcome[t].id = _bridge /\ bridges[_bridge]._connected
        /\ Len(bridges) = 1 /\ Len(loops) = 1 /\ Len(bgThreads) = 1
        /\ Len(clients) = 1 /\ Len(futs) = 1

\* C13: a coroutine is submitted only by the submitting statement of a
\* start(), stop() or call_async() in progress, one future at a time; a
\* caller that has submitted never returns to a submitting statement in the
\* same invocation (a wait ends in the next statement of the method or in
\* the end of the invocation); while no caller is inside an invocation no
\* future is created and no bridge changes; a start() makes at most one
\* handshake attempt and a call_async() that was accepted submits exactly once.
C13_SubmitStep ==
    Len(futs') # Len(futs)
    => /\ Len(futs') = Len(futs) + 1
       /\ \E t \in Callers :
             /\ pc[t] \in {"s_submit", "p_submit", "c_submit"}
             /\ pc'[t] \in {"s_wait", "p_wait", "c_wait"}
             /\ fut'[t] = Len(futs')
             /\ made'[t].subs = made[t].subs + 1

C13_WaitStep ==
    \A t \in Callers :
        /\ pc[t] = "s_wait" /\ Steps(t) => pc'[t] \in {"s_set", "idle"}
        /\ pc[t] = "s_set" /\ Steps(t) => pc'[t] \in {"g_ret", "idle"}
        /\ pc[t] = "c_wait" /\ Steps(t) => pc'[t] = "idle"

C13_IdleStep ==
    (\A t \in Callers : pc[t] = "idle" /\ pc'[t] = "idle")
    => /\ Len(futs') = Len(futs)
       /\ _bridge' = _bridge
       /\ \A b \in 1..Len(bridges) : bridges'[b] = bridges[b]

C13_OnceEach ==
    \A t \in Callers :
        /\ pc[t] = "idle" /\ outcome[t].op \in {"start", "get_bridge"}
              => made[t].subs <= 1 /\ made[t].loops <= 1
        /\ pc[t] = "idle" /\ outcome[t].op = "call_async"
              => made[t].subs = (IF outcome[t].tag = "NotStarted" THEN 0 ELSE 1)
        /\ pc[t] = "idle" /\ outcome[t].op = "sequential_thinking_mcp"
              => made[t].subs <= 2 /\ made[t].loops <= 1

C13_NoRetry ==
    [][C13_SubmitStep /\ C13_WaitStep /\ C13_IdleStep]_vars /\ []C13_OnceEach

\* a start() gave up after 30 time units; its handshake completed afterwards
\* and nothing followed: no second handshake, the bridge not connected
C13_Witness ==
    \E t \in Callers :
        /\ Ended(t, "start", "raise", "Timeout") /\ made[t].subs = 1
        /\ Len(futs) = 1 /\ futs[1].kind = "connect" /\ futs[1].state = "ok"
        /\ Len(loops) = 1
        /\ ~bridges[outcome[t].id]._connected

\* caller t leaves the future.result() it is blocked in
Leaves(t) ==
    \/ StartResult(t) \/ StartTimeout(t)
    \/ StopResult(t) \/ StopTimeout(t)
    \/ CallResult(t) \/ CallTimeout(t)

\* C14: the only statement of start(), call_async() and stop() that waits
\* is future.result(); the time a caller has spent in it never exceeds 30
\* (start), 60 (call_async) or 10 (stop); a caller that has waited that long
\* can leave the wait whatever state the future, the loop and its thread are
\* in (operation never completed, loop halted), no more time passes before
\* it does, and its step out of the wait goes on to the next statement of
\* the method or ends the invocation.
C14_WithinCeiling ==
    \A t \in Callers :
        /\ pc[t] = "s_wait" => waited[t] <= 30
        /\ pc[t] = "c_wait" => waited[t] <= 60
        /\ pc[t] = "p_wait" => waited[t] <= 10

C14_Released ==
    \A t \in Callers :
        \/ pc[t] = "s_wait" /\ waited[t] = 30
        \/ pc[t] = "c_wait" /\ waited[t] = 60
        \/ pc[t] = "p_wait" /\ waited[t] = 10
        => (ENABLED Leaves(t)) /\ ~(ENABLED Tick)

C14_LeaveStep ==
    \A t \in Callers :
        Waiting(t) /\ Steps(t)
        => \/ pc'[t] = "idle" /\ outcome'[t].kind \in {"return", "raise"}
           \/ pc[t] = "s_wait" /\ pc'[t] = "s_set"
           \/ pc[t] = "p_wait" /\ pc'[t] = "p_halt"

C14_BoundedWait == [](C14_WithinCeiling /\ C14_Released) /\ [][C14_LeaveStep]_vars

\* a call accepted just before stop() halted the loop waited its 60 time
\* units on the halted loop and raised the timeout error; its operation is
\* still pending there
C14_Witness ==
    \E t \in Callers :
        /\ Ended(t, "call_async", "raise", "Timeout") /\ outcome[t].at = 60
        /\ futs[outcome[t].id].state = "pending"
        /\ loops[futs[outcome[t].id].loop].state = "stopped"

\* a stop() gave up after 10 time units on a teardown that never completed
C14_WitnessStop ==
    \E t \in Callers :
        Ended(t, "stop", "raise", "Timeout") /\ outcome[t].at = 10

\* the functions the pipeline runs as tools
Tools == {"sequential_thinking_mcp", "search_news"}

\* the errors that arise inside the tools
ToolErrors == {"ConnectError", "Timeout", "NotStarted", "OpError", "SearchError"}

\* C15: a tool function never ends by raising: it returns its result, or
\* the diagnostic string for the error that arose inside it (start-up
\* failure or timeout, not-started error, call timeout, error of the
\* operation, search client error); and no step of sequential_thinking_mcp
\* taken while the global bridge is connected changes that bridge, its loop,
\* its thread, its client or the global.
C15_NeverRaises ==
    \A t \in Callers :
        pc[t] = "idle" /\ outcome[t].op \in Tools
        => /\ outcome[t].kind \in {"return", "diagnostic"}
           /\ outcome[t].kind = "diagnostic" <=> outcome[t].tag \in ToolErrors

C15_EndStep ==
    \A t \in Callers :
        outer[t] \in ToolFrames /\ Steps(t) /\ pc'[t] = "idle"
        => /\ outcome'[t].op = "sequential_thinking_mcp"
           /\ outer'[t] = "none"
           /\ \/ outcome'[t].kind = "return" /\ outcome'[t].tag = "result"
              \/ outcome'[t].kind = "diagnostic" /\ outcome'[t].tag \in ToolErrors

C15_BridgeKept ==
    \A t \in Callers :
        /\ outer[t] \in ToolFrames \/ ToolInvoke(t)
        /\ Steps(t) \/ made'[t] # made[t]
        /\ _bridge # None /\ bridges[_bridge]._connected
        => /\ UNCHANGED <<_bridge, bridges, loops, bgThreads, clients>>
           /\ bridges'[_bridge]._connected

C15_ToolsContainFailures ==
    []C15_NeverRaises /\ [][C15_EndStep /\ C15_BridgeKept]_vars

\* the tool has returned the diagnostic for an error of its operation and
\* the global bridge is still connected on its running loop
C15_Witness ==
    \E t \in Callers :
        /\ pc[t] = "idle" /\ outcome[t].op = "sequential_thinking_mcp"
        /\ outcome[t].kind = "diagnostic" /\ outcome[t].tag \in {"OpError", "Timeout"}
        /\ made[t] = [loops |-> 0, subs |-> 1]
        /\ _bridge # None /\ bridges[_bridge]._connected
        /\ loops[bridges[_bridge].loop].state = "running"

\* the tool has returned the diagnostic for a failed start-up
C15_WitnessStartFailure ==
    \E t \in Callers :
        /\ pc[t] = "idle" /\ outcome[t].op = "sequential_thinking_mcp"
        /\ outcome[t].kind = "diagnostic" /\ outcome[t].tag = "ConnectError"

\* the tool has returned the diagnostic for the not-started error, and a
\* search tool the one for an error of the search client
C15_WitnessNotStarted ==
    \E t \in Callers :
        /\ pc[t] = "idle" /\ outcome[t].op = "sequential_thinking_mcp"
        /\ outcome[t].kind = "diagnostic" /\ outcome[t].tag = "NotStarted"

C15_WitnessSearch ==
    \E t \in Callers :
        /\ pc[t] = "idle" /\ outcome[t].op = "search_news"
        /\ outcome[t].kind = "diagnostic" /\ outcome[t].tag = "SearchError"

\* ------------------------------------------------------ step log claims
\* what was added to a log after its last reset, in the order of the calls
RECURSIVE SinceReset(_, _)
SinceReset(h, mark) ==
    IF h = <<>> THEN <<>>
    ELSE IF h[Len(h)] = mark THEN <<>>
    ELSE Append(SinceReset(SubSeq(h, 1, Len(h) - 1), mark), h[Len(h)])

Added == SinceReset(hist, NoStep)
AddedThoughts == SinceReset(thist, NoThought)

IsStepLine(l) == l.line = "step"
IsThoughtLine(l) == l.line = "thought"

\* the step is an add_step / a reset of the step log
AddsStep == Len(hist') = Len(hist) + 1 /\ hist'[Len(hist')] # NoStep
ResetsSteps == Len(hist') = Len(hist) + 1 /\ hist'[Len(hist')] = NoStep

\* C16: the text get_summary() returns has one entry per step added since
\* the last reset, in the order of the add_step calls whatever their step
\* numbers: the i-th entry shows the number and total of the i-th step
\* added and, on the next line, its content; for a log without steps the
\* text is exactly the fixed empty-process message.
C16_SummaryInAppendOrder ==
    ret.op = "get_summary"
    => IF Added = <<>>
       THEN ret.text = <<[line |-> "empty_process", a |-> 0, b |-> 0]>>
       ELSE LET heads == SelectSeq(ret.text, IsStepLine)
                bodies == SelectSeq(ret.text, IsThoughtLine)
            IN /\ Len(heads) = Len(Added) /\ Len(bodies) = Len(Added)
               /\ \A i \in 1..Len(Added) :
                     /\ heads[i].a = Added[i].step_number
                     /\ heads[i].b = Added[i].total_steps
                     /\ bodies[i].a = Added[i].thought
               /\ \A k \in 1..Len(ret.text) :
                     ret.text[k].line = "step"
                     => k < Len(ret.text) /\ ret.text[k + 1].line = "thought"
               /\ \A k \in 1..Len(ret.text) : ret.text[k].line # "empty_process"

\* a summary of steps whose numbers decrease: rendered as added, not sorted
C16_Witness ==
    /\ ret.op = "get_summary" /\ Len(steps) = 3
    /\ steps[1].step_number > steps[2].step_number
    /\ steps[2].step_number < steps[3].step_number
    /\ SelectSeq(ret.text, IsThoughtLine)[1].a = steps[1].thought
    /\ \E k \in 1..Len(ret.text) : ret.text[k].line = "meta"

\* the summary of a log without steps
C16_WitnessEmpty ==
    ret.op = "get_summary" /\ steps = <<>> /\ Len(ret.text) = 1

\* C17: reset(), clear_thinking() and reset_thinking_process() leave the
\* shared log without steps and current_step 0, and
\* mcp_thinking_tool.reset_thinking_process() leaves its log without
\* thoughts; a log always holds exactly what was added after its last
\* reset, so nothing recorded before a reset is in it; and the summary of a
\* log that was reset and not added to since is the empty-log message.
C17_ResetStep ==
    /\ ResetsSteps
          => /\ steps' = <<>> /\ current_step' = 0
             /\ ret'.op \in {"reset", "clear_thinking", "reset_thinking_process"}
             /\ ret'.op = "clear_thinking" => ret'.n = Len(steps)
    /\ Len(thist') = Len(thist) + 1 /\ thist'[Len(thist')] = NoThought
          => thoughts' = <<>> /\ current_thought' = 0

C17_OnlySinceReset ==
    /\ steps = Added /\ current_step = Len(Added)
    /\ thoughts = AddedThoughts /\ current_thought = Len(AddedThoughts)
    /\ ret.op = "get_summary" /\ Added = <<>>
          => ret.text = <<[line |-> "empty_process", a |-> 0, b |-> 0]>>
    /\ ret.op = "get_thinking_summary" /\ AddedThoughts = <<>>
          => ret.text = <<[line |-> "not_begun", a |-> 0, b |-> 0]>>

C17_ResetClears == [][C17_ResetStep]_vars /\ []C17_OnlySinceReset

\* a step, a reset, and a step: the log holds the later step only
C17_Witness ==
    /\ Len(hist) = 3 /\ hist[1] # NoStep /\ hist[2] = NoStep /\ hist[3] # NoStep
    /\ Len(steps) = 1 /\ steps[1].thought = hist[3].thought
    /\ steps[1].thought # hist[1].thought

\* the summary asked for after steps were added and the log was reset
C17_WitnessSummary ==
    /\ ret.op = "get_summary" /\ Len(ret.text) = 1
    /\ Len(hist) >= 2 /\ hist[1] # NoStep /\ hist[Len(hist)] = NoStep

\* C18: add_step makes the log one step longer; the new last step, which
\* is also the value returned, has the content, step number, total and
\* metadata given; the steps that were in the log are at the same positions
\* with the same values; current_step is the new length and the other log
\* is untouched.
C18_AddStepFrame ==
    AddsStep
    => /\ Len(steps') = Len(steps) + 1
       /\ steps'[Len(steps')] = hist'[Len(hist')]
       /\ ret'.op = "add_step" /\ ret'.step = hist'[Len(hist')]
       /\ \A i \in 1..Len(steps) : steps'[i] = steps[i]
       /\ current_step' = Len(steps) + 1
       /\ UNCHANGED <<thoughts, current_thought, thist>>

C18_AppendsOne == [][C18_AddStepFrame]_vars

\* a step with metadata was added behind two others and returned
C18_Witness ==
    /\ ret.op = "add_step" /\ Len(steps) = 3
    /\ ret.step = steps[3] /\ ret.step.metadata # <<>>
    /\ steps[1].thought = 1 /\ steps[2].thought = 2 /\ steps[3].thought = 3

\* C19: get_summary() and get_step() change neither the steps nor
\* current_step (nor the other log), and a get_summary() right after a
\* get_summary() returns the same text.
C19_ReadStep ==
    ret'.op \in {"get_summary", "get_step"} /\ hist' = hist
    => /\ steps' = steps /\ current_step' = current_step
       /\ UNCHANGED <<thoughts, current_thought, thist>>
       /\ ret.op = "get_summary" /\ ret'.op = "get_summary" => ret'.text = ret.text

C19_ReadsChangeNothing == [][C19_ReadStep]_vars

\* get_step() has found a step in a log of three, which is still complete
C19_Witness ==
    /\ ret.op = "get_step" /\ ret.step # NoStep /\ ret.step.step_number = ret.n
    /\ Len(steps) = 3 /\ steps = Added /\ current_step = 3

\* C20: add_step can be called with every step number whatever the log
\* holds, and add_thought likewise; the numbers in a log are, position by
\* position, the numbers given since its last reset: no step is refused,
\* renumbered or moved.
C20_NumbersKept ==
    /\ Len(steps) = Len(Added)
    /\ \A i \in 1..Len(Added) : i <= Len(steps) =>
          steps[i].step_number = Added[i].step_number /\ steps[i].thought = Added[i].thought
    /\ Len(thoughts) = Len(AddedThoughts)
    /\ \A i \in 1..Len(AddedThoughts) : i <= Len(thoughts) =>
          thoughts[i].thoughtNumber = AddedThoughts[i].thoughtNumber

C20_AnyNumberAccepted ==
    Len(hist) + Len(thist) < MaxLogOps
    => \A n \in 1..MaxNumber :
          /\ ENABLED (AddStep /\ Len(steps') = Len(steps) + 1
                              /\ steps'[Len(steps')].step_number = n)
          /\ ENABLED (AddThought /\ Len(thoughts') = Len(thoughts) + 1
                                 /\ thoughts'[Len(thoughts')].thoughtNumber = n)

C20_FaithfulAppendLog == C20_NumbersKept /\ C20_AnyNumberAccepted

\* a log holding a number above the total, then a smaller number that
\* skips one, then the same number again
C20_Witness ==
    /\ Len(steps) = 3
    /\ steps[1].step_number = 3 /\ steps[1].step_number > steps[1].total_steps
    /\ steps[2].step_number = 1 /\ steps[3].step_number = 1

\* the thought log holding decreasing and duplicated numbers
C20_WitnessThoughts ==
    /\ Len(thoughts) = 3
    /\ thoughts[1].thoughtNumber = 3 /\ thoughts[2].thoughtNumber = 1
    /\ thoughts[3].thoughtNumber = 1

\* ------------------------------------------------- shutdown and start-up
\* C21: stop() on a connected bridge first submits the teardown to the
\* bridge's loop, with the flag still set and the loop not signalled; when
\* the teardown has completed it signals the loop to halt, and only then
\* clears the connected flag and returns; nothing but these statements
\* signals a loop or clears a flag.  A loop that was signalled stays so until
\* it has halted, and a running loop that was signalled eventually halts.
\* A future submitted to a loop that was signalled or has halted (so every
\* future submitted after stop() has returned) never completes.
C21_OrderStep ==
    \A t \in Callers :
        /\ pc[t] = "p_submit" /\ Steps(t)
              => /\ pc'[t] = "p_wait"
                 /\ Len(futs') = Len(futs) + 1
                 /\ futs'[fut'[t]].kind = "disconnect"
                 /\ futs'[fut'[t]].loop = bridges[self[t]].loop
                 /\ loops' = loops /\ bridges' = bridges
                 /\ bridges[self[t]]._connected
        /\ pc[t] = "p_wait" /\ futs[fut[t]].state = "ok" /\ Steps(t)
              => /\ pc'[t] = "p_halt"
                 /\ loops' = loops /\ bridges' = bridges
        /\ pc[t] = "p_halt" /\ Steps(t)
              => /\ pc'[t] = "p_clear"
                 /\ made[t].subs = 1 /\ futs[fut[t]].state = "taken"
                 /\ loops'[bridges[self[t]].loop].stopReq
                 /\ bridges' = bridges /\ bridges[self[t]]._connected
        /\ pc[t] = "p_clear" /\ Steps(t)
              => /\ ~bridges'[self[t]]._connected
                 /\ Halting(self[t]) /\ loops' = loops
                 /\ pc'[t] = "idle" /\ outcome'[t].op = "stop"
                 /\ outcome'[t].kind = "return" /\ outcome'[t].tag = "stopped"

C21_OnlyStop ==
    /\ \A l \in 1..Len(loops) :
          loops'[l].stopReq /\ ~loops[l].stopReq
          => \E t \in Callers : pc[t] = "p_halt" /\ bridges[self[t]].loop = l
    /\ \A b \in 1..Len(bridges) :
          bridges[b]._connected /\ ~bridges'[b]._connected
          => \E t \in Callers : pc[t] = "p_clear" /\ self[t] = b

C21_LateStep ==
    /\ \A l \in 1..Len(loops) :
          loops[l].stopReq \/ loops[l].state = "stopped"
          => loops'[l].stopReq \/ loops'[l].state = "stopped"
    /\ Len(futs') = Len(futs) + 1
          => LET l == futs'[Len(futs')].loop
             IN futs'[Len(futs')].late <=> (loops[l].stopReq \/ loops[l].state = "stopped")
    /\ \A f \in 1..Len(futs) :
          futs[f].state = "pending" /\ futs'[f].state # "pending"
          => ~futs[f].late /\ loops[futs[f].loop].state = "running"

C21_LateNeverRuns ==
    \A f \in 1..Len(futs) : futs[f].late => futs[f].state = "pending"

C21_Halts ==
    \A l \in 1..MaxLoops :
        (l <= Len(loops) /\ loops[l].stopReq /\ loops[l].state = "running")
        ~> (l <= Len(loops) /\ loops[l].state = "stopped")

C21_StopSequence ==
    /\ [][C21_OrderStep /\ C21_OnlyStop /\ C21_LateStep]_vars
    /\ []C21_LateNeverRuns
    /\ C21_Halts

\* stop() has returned, the loop of the bridge has halted, and an operation
\* submitted to it after the signal is pending there
C21_Witness ==
    \E t \in Callers :
        /\ Ended(t, "stop", "return", "stopped")
        /\ ~bridges[outcome[t].id]._connected
        /\ loops[bridges[outcome[t].id].loop].state = "stopped"
        /\ \E f \in 1..Len(futs) :
              /\ futs[f].kind = "call" /\ futs[f].late /\ futs[f].state = "pending"
              /\ futs[f].loop = bridges[outcome[t].id].loop

\* the loops a background thread is running that have not been told to stop
Running == {l \in 1..Len(loops) : loops[l].state = "running" /\ ~loops[l].stopReq}

\* C22: with a single bridge (every loop was created by a start() of that
\* bridge), when stop() or cleanup_bridge() has returned no loop of the
\* bridge is left running without having been told to stop, also when the
\* start() before it had failed; and at no time does the bridge have more
\* than one such loop, also after start() was invoked again following a
\* failed start().
C22_NoContextLeft ==
    Len(bridges) = 1
    => /\ \A t \in Callers :
             /\ pc[t] = "idle" /\ outcome[t].op \in {"stop", "cleanup_bridge"}
             /\ outcome[t].kind = "return"
             => Running = {}
       /\ Cardinality(Running) <= 1

\* C23: when two threads each make one call of get_bridge() (or of start()
\* on the same bridge) at the same time, at most one bridge instance, one
\* event loop, one background thread and one handshake are created.
C23_OneStartUp ==
    /\ Len(bridges) <= 1
    /\ Len(loops) <= 1
    /\ Len(bgThreads) <= 1
    /\ Len(futs) <= 1

\* C24: a get_bridge() that returns hands back a connected bridge, also
\* when an earlier get_bridge() ended in the error of its start().
C24_ReturnsConnected ==
    \A t \in Callers :
        Ended(t, "get_bridge", "return", "bridge")
        => outcome[t].id # None /\ bridges[outcome[t].id]._connected

\* C25: with one thread in stop() and another in call_async() on the same
\* bridge, no caller that has passed the connected test is still about to
\* submit when stop() has submitted the teardown, and no operation is
\* submitted to a loop that was told to halt or has halted.
C25_AcceptedBeforeTeardown ==
    /\ \A t, u \in Callers :
          pc[t] = "c_submit" /\ self[u] = self[t]
          => pc[u] \notin {"p_wait", "p_halt", "p_clear"}
    /\ \A f \in 1..Len(futs) : futs[f].kind = "call" => ~futs[f].late

\* the operations that go to the session of a client
Requests == {"call_tool", "list_tools"}

\* C26: call_tool() and list_tools() on a client that is not between a
\* connect() that returned and the next disconnect() raise the
\* not-connected error and do not go to the session; and disconnect() on a
\* client no connect() has touched returns without error and leaves the
\* client as constructed.
C26_SessionOnlyWhileConnected ==
    \A t \in Callers :
        /\ outcome[t].op \in Requests /\ ~clients[outcome[t].id].up
              => outcome[t].kind = "raise" /\ outcome[t].tag = "NotConnected"
        /\ outcome[t].op = "disconnect"
              /\ clients[outcome[t].id] = [session |-> FALSE, _transport |-> "none", up |-> FALSE]
              => outcome[t].kind = "return" /\ outcome[t].tag = "noop"

\* C27: a think_step call either returns its confirmation with exactly one
\* step appended to the shared log (the steps before it unchanged), or
\* raises with the log as it was, whatever step number and total it is
\* given.
C27_ThinkStepFrame ==
    ret'.op = "think_step" /\ Len(hist') = Len(hist) + 1
    => \/ /\ ret'.err = "none" /\ ret'.text # <<>>
          /\ Len(steps') = Len(steps) + 1
          /\ \A i \in 1..Len(steps) : steps'[i] = steps[i]
       \/ /\ ret'.err # "none"
          /\ steps' = steps /\ current_step' = current_step

C27_AllOrNothing == [][C27_ThinkStepFrame]_vars

\* C28: the text get_thinking_summary() of mcp_thinking_tool returns has
\* one entry per thought recorded since the last reset, in the order they
\* were recorded; the i-th entry shows the thought number and the total the
\* caller gave with the i-th thought and, on the next line, its content.
C28_SummaryShowsGivenNumbers ==
    ret.op = "get_thinking_summary" /\ AddedThoughts # <<>>
    => LET heads == SelectSeq(ret.text, IsStepLine)
           bodies == SelectSeq(ret.text, IsThoughtLine)
       IN /\ Len(heads) = Len(AddedThoughts) /\ Len(bodies) = Len(AddedThoughts)
          /\ \A i \in 1..Len(AddedThoughts) :
                /\ bodies[i].a = AddedThoughts[i].thought
                /\ heads[i].a = AddedThoughts[i].thoughtNumber
                /\ heads[i].b = AddedThoughts[i].totalThoughts

\* what the summary shows instead: the entries are in the order recorded,
\* each with its content, and numbered by position out of the number of
\* thoughts in the log
C28_NumberedByPosition ==
    ret.op = "get_thinking_summary" /\ AddedThoughts # <<>>
    => LET heads == SelectSeq(ret.text, IsStepLine)
           bodies == SelectSeq(ret.text, IsThoughtLine)
       IN /\ Len(heads) = Len(AddedThoughts) /\ Len(bodies) = Len(AddedThoughts)
          /\ \A i \in 1..Len(AddedThoughts) :
                /\ bodies[i].a = AddedThoughts[i].thought
                /\ heads[i].a = i
                /\ heads[i].b = Len(AddedThoughts)

\* the elements of a sequence
Range(q) == {q[i] : i \in 1..Len(q)}

\* C29: in the crew of either pipeline every task named in the context of
\* a task stands strictly earlier in the task list, and the agent of every
\* task is in the agent list; the tasks are executed in the order of the
\* list, and every executed task was given the output of every task in its
\* context.
C29_ListOrder ==
    \A i \in 1..Len(crew.tasks) :
        /\ \A c \in Range(crew.tasks[i].context) :
              \E j \in 1..(i - 1) : crew.tasks[j].name = c
        /\ crew.tasks[i].agent \in Range(crew.agents)

C29_Executed ==
    /\ Len(outputs) <= Len(crew.tasks)
    /\ \A k \in 1..Len(outputs) :
          /\ outputs[k].task = crew.tasks[k].name
          /\ Len(outputs[k].context) = Len(crew.tasks[k].context)
          /\ \A m \in 1..Len(outputs[k].context) :
                /\ outputs[k].context[m].task = crew.tasks[k].context[m]
                /\ \E j \in 1..(k - 1) :
                      /\ outputs[j].task = outputs[k].context[m].task
                      /\ outputs[j].output = outputs[k].context[m].output

C29_TasksInDependencyOrder == C29_ListOrder /\ C29_Executed

\* the memory pipeline has run to its synthesis task, which was given the
\* outputs of the analysis, knowledge and history tasks
C29_Witness ==
    /\ crew.pipeline = "parallel_agent_with_mcp_memory"
    /\ Len(outputs) = 7 /\ outputs[7].task = "synthesis_task"
    /\ Len(outputs[7].context) = 3
    /\ Len(outputs[6].context) = 4 /\ outputs[6].context[1].output = "SearchError"

\* the other pipeline has run to its synthesis task
C29_WitnessFirst ==
    /\ crew.pipeline = "parallel_agent_with_mcp"
    /\ Len(outputs) = 5 /\ outputs[5].task = "synthesis_task"
    /\ Len(outputs[4].context) = 3

\* the positions of the log that hold a step numbered n
Numbered(n) == {i \in 1..Len(steps) : steps[i].step_number = n}

\* C30: get_step(n) returns the step at the lowest position among the
\* steps numbered n, that is the one added first, and None when the log
\* holds no step with that number; current_step always equals the number of
\* steps in the log.
C30_EarliestStep ==
    /\ ret.op = "get_step"
          => IF Numbered(ret.n) = {}
             THEN ret.step = [thought |-> 0, step_number |-> 0, total_steps |-> 0,
                              metadata |-> <<>>]
             ELSE \E i \in Numbered(ret.n) :
                     /\ \A j \in Numbered(ret.n) : i <= j
                     /\ ret.step = steps[i]
    /\ current_step = Len(steps)

\* get_step has returned the first of two steps added under the same number
C30_Witness ==
    /\ ret.op = "get_step" /\ Cardinality(Numbered(ret.n)) >= 2
    /\ \E i, j \in Numbered(ret.n) : i < j /\ ret.step = steps[i] /\ steps[i] # steps[j]
    /\ current_step = Len(steps)

\* get_step has returned None for a number no step of the log carries
C30_WitnessNone ==
    /\ ret.op = "get_step" /\ steps # <<>> /\ Numbered(ret.n) = {}
    /\ ret.step.thought = 0

====
